---- MODULE Spec2Model ----
(***************************************************************************)
(* The credential rotation pipelines PUT /changePassword and               *)
(* PUT /forgotPassword: chained express middleware that validates the body,*)
(* resolves the account, replaces its salt and salted hash and answers     *)
(* with a signed reset token.  The book router (POST /book, GET /book/all, *)
(* DELETE /book/series/:seriesName) over table books is modelled in a      *)
(* specification of its own, BookSpec.                                     *)
(*                                                                         *)
(* A request runs as a sequence of event-loop turns.  Every turn is one    *)
(* action: the synchronous middleware up to the first pool.query           *)
(* (Arrive), the lookup's .then or .catch callback together with the       *)
(* middleware it calls through next() (LookupResolve, LookupReject), the   *)
(* store committing or refusing the UPDATE (UpdateCommit, UpdateReject)    *)
(* and the update's .then/.catch callback (UpdateThen).  No route writes   *)
(* table Account, so the SELECT is evaluated in the turn of its callback;  *)
(* a refused UPDATE writes nothing, so it shares the turn of its .catch.   *)
(* A committed UPDATE and its .then are separate turns: other requests run *)
(* between them.                                                           *)
(***************************************************************************)
EXTENDS Integers, Sequences, FiniteSets, TLC

VARIABLES
    req,         \* per request: the express request/response pair and its position
    account,     \* table Account: rows (account_id, username, email, phone)
    credential,  \* table Account_Credential: account_id -> (salt, salted_hash)
    secret,      \* key.secret, read from process.env.JSON_WEB_TOKEN at load time
    lastWriter,  \* history: per account, the request whose UPDATE committed last
    policy,      \* a string under test and what the two isValidNewPassword return
    books,       \* table books, in the order its rows were inserted
    bookReq      \* per request of the book router: the request and its position

vars == <<req, account, credential, secret, lastWriter, policy, books, bookReq>>

-----------------------------------------------------------------------------
(* Bounds *)

NumReq == 2      \* concurrent requests
NumSalts == 2    \* distinct values generateSalt can return
MaxSeedLen == 3        \* freely chosen leading code units of a string under test
MaxPasswordLen == 25   \* longest string under test

Req == 1..NumReq
Salts == 1..NumSalts

-----------------------------------------------------------------------------
(* Strings.  A string is named by a TLA+ string; Chars gives its UTF-16     *)
(* code units, on which length and the regular expressions are computed.   *)

undefined == "undefined"     \* the JavaScript value of a missing body field

Chars(s) ==
    CASE s = "" -> << >>
      [] s = "alice" -> <<"a", "l", "i", "c", "e">>
      [] s = "bob" -> <<"b", "o", "b">>
      [] s = "zed" -> <<"z", "e", "d">>
      [] s = "a@x.com" -> <<"a", "@", "x", ".", "c", "o", "m">>
      [] s = "b@x.com" -> <<"b", "@", "x", ".", "c", "o", "m">>
      [] s = "ax.com" -> <<"a", "x", ".", "c", "o", "m">>
      [] s = "123-456-7890" ->
            <<"1", "2", "3", "-", "4", "5", "6", "-", "7", "8", "9", "0">>
      [] s = "555-000-1111" ->
            <<"5", "5", "5", "-", "0", "0", "0", "-", "1", "1", "1", "1">>
      [] s = "1234567890" ->
            <<"1", "2", "3", "4", "5", "6", "7", "8", "9", "0">>
      [] s = "123-456-78901" ->
            <<"1", "2", "3", "-", "4", "5", "6", "-", "7", "8", "9", "0", "1">>
      [] s = "12a-456-7890" ->
            <<"1", "2", "a", "-", "4", "5", "6", "-", "7", "8", "9", "0">>
      [] s = "anything" -> <<"a", "n", "y", "t", "h", "i", "n", "g">>
      [] s = "Abcde1!2" -> <<"A", "b", "c", "d", "e", "1", "!", "2">>
      [] s = "Valid1!pw" -> <<"V", "a", "l", "i", "d", "1", "!", "p", "w">>
      [] s = "short1!" -> <<"s", "h", "o", "r", "t", "1", "!">>
      [] s = "abcde1!2" -> <<"a", "b", "c", "d", "e", "1", "!", "2">>
      [] s = "Ab" ->
            <<"A", "b">>
      [] s = "Sun" ->
            <<"S", "u", "n">>
      [] s = "sun" ->
            <<"s", "u", "n">>
      [] s = "Moon" ->
            <<"M", "o", "o", "n">>
      [] s = "Mars" ->
            <<"M", "a", "r", "s">>
      [] s = "Dawn (Sun, #1)" ->
            <<"D", "a", "w", "n", " ", "(", "S", "u", "n", ",", " ", "#", "1", ")">>
      [] s = "Dusk (Sun, #2)" ->
            <<"D", "u", "s", "k", " ", "(", "S", "u", "n", ",", " ", "#", "2", ")">>
      [] s = "Eve (Moon, #1)" ->
            <<"E", "v", "e", " ", "(", "M", "o", "o", "n", ",", " ", "#", "1", ")">>
      [] s = "Ubik (1969)" ->
            <<"U", "b", "i", "k", " ", "(", "1", "9", "6", "9", ")">>
      [] s = "%" ->
            <<"%">>
      [] s = "   " ->
            <<" ", " ", " ">>
      [] s = "Herbert" ->
            <<"H", "e", "r", "b", "e", "r", "t">>
      [] s = "9780441013593" ->
            <<"9", "7", "8", "0", "4", "4", "1", "0", "1", "3", "5", "9", "3">>
      [] s = "9780441172719" ->
            <<"9", "7", "8", "0", "4", "4", "1", "1", "7", "2", "7", "1", "9">>
      [] s = "978044101" ->
            <<"9", "7", "8", "0", "4", "4", "1", "0", "1">>
      [] s = "-978044101359" ->
            <<"-", "9", "7", "8", "0", "4", "4", "1", "0", "1", "3", "5", "9">>

Digit == {"0", "1", "2", "3", "4", "5", "6", "7", "8", "9"}

LowerCase ==
    {"a", "b", "c", "d", "e", "f", "g", "h", "i", "j", "k", "l", "m",
     "n", "o", "p", "q", "r", "s", "t", "u", "v", "w", "x", "y", "z"}

UpperCase ==
    {"A", "B", "C", "D", "E", "F", "G", "H", "I", "J", "K", "L", "M",
     "N", "O", "P", "Q", "R", "S", "T", "U", "V", "W", "X", "Y", "Z"}

\* the character class [!@#$%^&*()_+=-]
Special == {"!", "@", "#", "$", "%", "^", "&", "*", "(", ")", "_", "+", "=", "-"}

\* RegExp.test of a one-character class: some code unit is in the class
TestChars(class, c) == \E i \in 1..Len(c) : c[i] \in class

TestClass(class, s) == TestChars(class, Chars(s))

-----------------------------------------------------------------------------
(* core/utilities: validationFunctions and credentialingFunctions.         *)

\* validationFunctions.isStringProvided: a string, and not the empty one
isStringProvided(candidate) == candidate # undefined /\ Len(Chars(candidate)) > 0

\* isStringProvided of a string given by its code units
isStringProvidedChars(c) == Len(c) > 0

\* credentialingFunctions.generateHash: a one-way digest of (password, salt),
\* collision free: the digest is named by the pair it was computed from
generateHash(pw, salt) == <<"sha256", pw, salt>>

-----------------------------------------------------------------------------
(* The validators of the two routers.                                      *)

\* forgotPassword's isValidNewPassword with length < 24 for length <= 24
PolicyFP_Below24(c) ==
    /\ Len(c) >= 8
    /\ Len(c) < 24
    /\ TestChars(Special, c)
    /\ TestChars(Digit, c)
    /\ TestChars(LowerCase, c)
    /\ TestChars(UpperCase, c)

\* forgotPassword's isValidNewPassword, on the code units of its argument
PolicyFP(c) ==
    /\ Len(c) >= 8
    /\ Len(c) <= 24
    /\ TestChars(Special, c)
    /\ TestChars(Digit, c)
    /\ TestChars(LowerCase, c)
    /\ TestChars(UpperCase, c)

\* forgotPassword's isValidNewPassword
isValidNewPasswordFP(newPassword) == PolicyFP(Chars(newPassword))

\* changePassword's isValidNewPassword without the uppercase test
isValidNewPasswordCP_NoUpper(newPassword) ==
    /\ isStringProvided(newPassword)
    /\ Len(Chars(newPassword)) >= 8
    /\ Len(Chars(newPassword)) <= 24
    /\ TestClass(Special, newPassword)
    /\ TestClass(Digit, newPassword)
    /\ TestClass(LowerCase, newPassword)

\* changePassword's isValidNewPassword after its isStringProvided test, on
\* the code units of its argument
PolicyCP(c) ==
    /\ Len(c) >= 8
    /\ Len(c) <= 24
    /\ TestChars(Special, c)
    /\ TestChars(Digit, c)
    /\ TestChars(LowerCase, c)
    /\ TestChars(UpperCase, c)

\* changePassword's isValidNewPassword
isValidNewPasswordCP(newPassword) ==
    isStringProvided(newPassword) /\ PolicyCP(Chars(newPassword))

\* the pattern without its anchors, /\d{3}-\d{3}-\d{4}/: a match anywhere
isValidPhone_Unanchored(phone) ==
    \E k \in 0..(Len(Chars(phone)) - 12) :
        \A i \in 1..12 :
            IF i \in {4, 8} THEN Chars(phone)[k + i] = "-" ELSE Chars(phone)[k + i] \in Digit

\* /^\d{3}-\d{3}-\d{4}$/
isValidPhone(phone) ==
    /\ Len(Chars(phone)) = 12
    /\ \A i \in 1..12 :
          IF i \in {4, 8} THEN Chars(phone)[i] = "-" ELSE Chars(phone)[i] \in Digit

\* email.includes('@')
isValidEmail(email) == \E i \in 1..Len(Chars(email)) : Chars(email)[i] = "@"

-----------------------------------------------------------------------------
(* Express plumbing.  A middleware either calls next() or sends a response; *)
(* what it did is recorded as a result: whether the chain continues, the   *)
(* responses sent and the stages that ran (with the status each sent, 0    *)
(* for none).                                                              *)

\* next()
Continue(stage) ==
    [next |-> TRUE, sent |-> << >>, ran |-> <<[stage |-> stage, status |-> 0]>>]

\* response.status(status).send(body)
Respond(stage, status, body) ==
    [next |-> FALSE,
     sent |-> <<[status |-> status, body |-> body]>>,
     ran |-> <<[stage |-> stage, status |-> status]>>]

\* the router runs the following middleware only when next() was called
AndThen(first, rest) ==
    IF first.next
    THEN [next |-> rest.next, sent |-> first.sent \o rest.sent, ran |-> first.ran \o rest.ran]
    ELSE first

-----------------------------------------------------------------------------
(* PUT /forgotPassword: the synchronous middleware.                        *)

FP_RequestValidator(body) ==
    IF /\ isStringProvided(body.username)
       /\ isStringProvided(body.email)
       /\ isStringProvided(body.newPassword)
       /\ isStringProvided(body.confirmNewPassword)
       /\ isStringProvided(body.phone)
    THEN Continue("RequestValidator")
    ELSE Respond("RequestValidator", 400, [message |-> "Missing a parameter"])

\* the policy validator with the mismatch branch falling through to next()
FP_PolicyValidator_FallsThrough(body) ==
    IF isValidNewPasswordFP(body.newPassword)
    THEN IF body.newPassword = body.confirmNewPassword
         THEN Continue("PolicyValidator")
         ELSE [Respond("PolicyValidator", 400, [message |-> "The passwords do not match"])
                 EXCEPT !.next = TRUE]
    ELSE Respond("PolicyValidator", 400,
                 [message |-> "Invalid new password - please refer to documentation"])

FP_PolicyValidator(body) ==
    IF isValidNewPasswordFP(body.newPassword)
    THEN IF body.newPassword = body.confirmNewPassword
         THEN Continue("PolicyValidator")
         ELSE Respond("PolicyValidator", 400, [message |-> "The passwords do not match"])
    ELSE Respond("PolicyValidator", 400,
                 [message |-> "Invalid new password - please refer to documentation"])

\* an email validator whose refusal neither sends nor calls next()
FP_EmailValidator_Silent(body) ==
    IF isValidEmail(body.email)
    THEN Continue("EmailValidator")
    ELSE [Continue("EmailValidator") EXCEPT !.next = FALSE]

FP_EmailValidator(body) ==
    IF isValidEmail(body.email)
    THEN Continue("EmailValidator")
    ELSE Respond("EmailValidator", 400,
                 [message |-> "Invalid email - please refer to registration documentation"])

FP_PhoneValidator(body) ==
    IF isValidPhone(body.phone)
    THEN Continue("PhoneValidator")
    ELSE Respond("PhoneValidator", 400,
                 [message |-> "Invalid phone number - please refer to registration documentation"])

\* the first half of the identity resolver: log the body, issue the SELECT
FP_IdentityResolver(body) == Continue("IdentityResolver")

\* the chain with the email validator registered before the policy validator
FP_Sync_EmailFirst(body) ==
    AndThen(FP_RequestValidator(body),
    AndThen(FP_EmailValidator(body),
    AndThen(FP_PolicyValidator(body),
    AndThen(FP_PhoneValidator(body),
            FP_IdentityResolver(body)))))

FP_Sync(body) ==
    AndThen(FP_RequestValidator(body),
    AndThen(FP_PolicyValidator(body),
    AndThen(FP_EmailValidator(body),
    AndThen(FP_PhoneValidator(body),
            FP_IdentityResolver(body)))))

\* the SELECT without its email condition
FP_Select_NoEmail(acc, body) ==
    {row \in acc : row.username = body.username /\ row.phone = body.phone}

\* the SELECT without its phone condition
FP_Select_NoPhone(acc, body) ==
    {row \in acc : row.username = body.username /\ row.email = body.email}

\* SELECT account_id FROM Account WHERE username = $1 AND email = $2 AND phone = $3
FP_Select(acc, body) ==
    {row \in acc : /\ row.username = body.username
                   /\ row.email = body.email
                   /\ row.phone = body.phone}

-----------------------------------------------------------------------------
(* PUT /changePassword: the synchronous middleware.                        *)

\* the request validator without the confirmNewPassword test
CP_RequestValidator_NoConfirm(body) ==
    IF /\ isStringProvided(body.username)
       /\ isStringProvided(body.password)
       /\ isStringProvided(body.newPassword)
    THEN Continue("RequestValidator")
    ELSE Respond("RequestValidator", 400, [message |-> "Missing required information"])

\* the request validator reading currentPasswordField instead of password
CP_RequestValidator_ReadsCurrentPasswordField(body) ==
    IF /\ isStringProvided(body.username)
       /\ isStringProvided(body.currentPasswordField)
       /\ isStringProvided(body.newPassword)
       /\ isStringProvided(body.confirmNewPassword)
    THEN Continue("RequestValidator")
    ELSE Respond("RequestValidator", 400, [message |-> "Missing required information"])

CP_RequestValidator(body) ==
    IF /\ isStringProvided(body.username)
       /\ isStringProvided(body.password)
       /\ isStringProvided(body.newPassword)
       /\ isStringProvided(body.confirmNewPassword)
    THEN Continue("RequestValidator")
    ELSE Respond("RequestValidator", 400, [message |-> "Missing required information"])

CP_PolicyValidator(body) ==
    IF isValidNewPasswordCP(body.newPassword)
    THEN Continue("PolicyValidator")
    ELSE Respond("PolicyValidator", 400,
                 [message |-> "Invalid New Password  - please refer to documentation"])

CP_IdentityResolver(body) == Continue("IdentityResolver")

CP_Sync(body) ==
    AndThen(CP_RequestValidator(body),
    AndThen(CP_PolicyValidator(body),
            CP_IdentityResolver(body)))

\* SELECT account_id FROM Account WHERE username = $1
CP_Select(acc, body) == {row \in acc : row.username = body.username}

-----------------------------------------------------------------------------
(* The asynchronous half of both routers: the lookup's callback, the       *)
(* credential rotator and the update's callback.                           *)

NoId == -1       \* request.id before the resolver assigned it (undefined)

\* !request.id
Falsy(id) == id = NoId \/ id = 0

\* console.dir({ ...request.body, password: '******' })
ConsoleDir(body) == [body EXCEPT !.password = "******"]

\* forgotPassword, lookup .then: no row, or request.id = rows[0].account_id and next()
FP_ResolverThen(rows) ==
    IF rows = {}
    THEN Respond("IdentityResolver.then", 404,
                 [message |-> "User does not exist within the Database"])
    ELSE Continue("IdentityResolver.then")

\* forgotPassword, lookup .catch
FP_ResolverCatch ==
    Respond("IdentityResolver.catch", 500,
            [message |-> "Unexpected issue on account retrieval in the database"])

\* forgotPassword, the guard of the last middleware
FP_RotatorGuard(id) ==
    IF Falsy(id)
    THEN Respond("CredentialRotator", 500,
                 [message |-> "Unexpected issue on retrieving user in the database"])
    ELSE Continue("CredentialRotator")

\* forgotPassword, update .catch
FP_UpdateCatch ==
    Respond("CredentialRotator.catch", 500,
            [message |-> "Unexpected issue on updating password in the database"])

\* changePassword's lookup .then answering 404 as forgotPassword's does
CP_ResolverThen_NotFound404(rows) ==
    IF rows = {}
    THEN Respond("IdentityResolver.then", 404,
                 [message |-> "User does not exist within the database with the provided inputs"])
    ELSE Continue("IdentityResolver.then")

\* changePassword, lookup .then
CP_ResolverThen(rows) ==
    IF rows = {}
    THEN Respond("IdentityResolver.then", 400,
                 [message |-> "User does not exist within the database with the provided inputs"])
    ELSE Continue("IdentityResolver.then")

\* changePassword, lookup .catch
CP_ResolverCatch ==
    Respond("IdentityResolver.catch", 500, [message |-> "DB server error - contact support"])

\* changePassword, the guard of the last middleware
CP_RotatorGuard(id) ==
    IF Falsy(id)
    THEN Respond("CredentialRotator", 500, [message |-> "Server error - contact support"])
    ELSE Continue("CredentialRotator")

\* changePassword, update .catch
CP_UpdateCatch ==
    Respond("CredentialRotator.catch", 500, [message |-> "Server error - contact support"])

\* the values with the digest of the confirmation instead of the new password
RotatorValues_HashesConfirmation(body, id, salt) ==
    <<generateHash(body.confirmNewPassword, salt), salt, id>>

\* const values = [saltedHash, salt, request.id], the same in both routers
\* the values with a fixed account in place of the resolved one
RotatorValues_FixedAccount(body, id, salt) == <<generateHash(body.newPassword, salt), salt, 1>>

RotatorValues(body, id, salt) == <<generateHash(body.newPassword, salt), salt, id>>

\* an UPDATE that sets salted_hash and leaves salt
UpdateCredential_HashOnly(cred, values) ==
    [a \in DOMAIN cred |->
        IF a = values[3]
        THEN [salt |-> cred[a].salt, salted_hash |-> values[1]]
        ELSE cred[a]]

\* an UPDATE without its WHERE clause: every row is replaced
UpdateCredential_NoWhere(cred, values) ==
    [a \in DOMAIN cred |-> [salt |-> values[2], salted_hash |-> values[1]]]

\* UPDATE Account_Credential SET salted_hash = $1, salt = $2 WHERE account_id = $3:
\* one statement, atomic in the store; an id without a row matches nothing
UpdateCredential(cred, values) ==
    [a \in DOMAIN cred |->
        IF a = values[3]
        THEN [salt |-> values[2], salted_hash |-> values[1]]
        ELSE cred[a]]

\* jwt.sign({ id: request.id }, key.secret, { expiresIn: '15m' }) throws
\* when the secret has no value
SignThrows(key) == key = undefined

\* a token signed over a payload whose id was never set
Sign_UnsetId(id, key) == [id |-> NoId, expiresIn |-> "15m"]

\* the token jwt.sign returns
Sign(id, key) == [id |-> id, expiresIn |-> "15m"]

\* update .then: sign the token and answer 200; a throw of jwt.sign lands in
\* the .catch chained behind it
UpdateThenResult(id, key, catch) ==
    IF SignThrows(key)
    THEN AndThen(Continue("CredentialRotator.then"), catch)
    ELSE Respond("CredentialRotator.then", 200,
                 [message |-> "Password updated successfully",
                  resetToken |-> Sign(id, key)])

-----------------------------------------------------------------------------
(* Requests.                                                               *)

Endpoints == {"changePassword", "forgotPassword"}

UsernameDom == {undefined, "alice", "bob", "zed"}
PasswordDom == {undefined, "anything", "Valid1!pw"}
CurrentPasswordFieldDom == {undefined, "anything"}
NewPasswordDom == {"", "Abcde1!2", "Valid1!pw", "short1!", "abcde1!2"}
ConfirmDom == {undefined, "Abcde1!2", "Valid1!pw"}
EmailDom == {"", "a@x.com", "b@x.com", "ax.com"}
PhoneDom ==
    {undefined, "123-456-7890", "555-000-1111", "1234567890", "123-456-78901",
     "12a-456-7890"}

\* every password a caller may try to authenticate with
Passwords == {"Abcde1!2", "Valid1!pw", "short1!", "abcde1!2", "anything"}

ChangeBodies ==
    [username : UsernameDom, password : PasswordDom,
     currentPasswordField : CurrentPasswordFieldDom,
     newPassword : NewPasswordDom, confirmNewPassword : ConfirmDom,
     email : {undefined}, phone : {undefined}]

ForgotBodies ==
    [username : UsernameDom, password : {undefined},
     currentPasswordField : {undefined},
     newPassword : NewPasswordDom, confirmNewPassword : ConfirmDom,
     email : EmailDom, phone : PhoneDom]

Sync(e, body) == IF e = "changePassword" THEN CP_Sync(body) ELSE FP_Sync(body)

Select(e, acc, body) ==
    IF e = "changePassword" THEN CP_Select(acc, body) ELSE FP_Select(acc, body)

ResolverThen(e, rows) ==
    IF e = "changePassword" THEN CP_ResolverThen(rows) ELSE FP_ResolverThen(rows)

ResolverCatch(e) == IF e = "changePassword" THEN CP_ResolverCatch ELSE FP_ResolverCatch

RotatorGuard(e, id) ==
    IF e = "changePassword" THEN CP_RotatorGuard(id) ELSE FP_RotatorGuard(id)

UpdateCatch(e) == IF e = "changePassword" THEN CP_UpdateCatch ELSE FP_UpdateCatch

\* The bodies of the requests that race with the first one: well-formed
\* rotations of alice's credential, the only kind whose store calls can
\* interleave with another request's on the same row.
RacingChangeBodies ==
    {b \in [username : {"alice"}, password : {"anything"},
            currentPasswordField : {undefined},
            newPassword : {"Abcde1!2", "Valid1!pw"},
            confirmNewPassword : {"Abcde1!2", "Valid1!pw"},
            email : {undefined}, phone : {undefined}] :
        b.newPassword = b.confirmNewPassword}

RacingForgotBodies ==
    {b \in [username : {"alice"}, password : {undefined},
            currentPasswordField : {undefined},
            newPassword : {"Abcde1!2", "Valid1!pw"},
            confirmNewPassword : {"Abcde1!2", "Valid1!pw"},
            email : {"a@x.com"}, phone : {"123-456-7890"}] :
        b.newPassword = b.confirmNewPassword}

\* The first request draws any body, the others a racing one.
BodiesOf(r, e) ==
    IF r = 1
    THEN IF e = "changePassword" THEN ChangeBodies ELSE ForgotBodies
    ELSE IF e = "changePassword" THEN RacingChangeBodies ELSE RacingForgotBodies

EmptyBody ==
    [username |-> undefined, password |-> undefined, currentPasswordField |-> undefined,
     newPassword |-> undefined, confirmNewPassword |-> undefined,
     email |-> undefined, phone |-> undefined]

IdleRequest ==
    [endpoint |-> "none", body |-> EmptyBody, pc |-> "idle", id |-> NoId,
     values |-> << >>, sent |-> << >>, ran |-> << >>, logged |-> << >>,
     committed |-> FALSE, replaced |-> << >>, inFlight |-> {}]

\* what a middleware result does to the request
Apply(q, res, pcNext) ==
    [q EXCEPT !.sent = @ \o res.sent,
              !.ran = @ \o res.ran,
              !.pc = IF res.next THEN pcNext ELSE "done"]

\* the rows registration left in Account and Account_Credential
InitAccount ==
    {[account_id |-> 1, username |-> "alice", email |-> "a@x.com",
      phone |-> "123-456-7890"],
     [account_id |-> 2, username |-> "bob", email |-> "b@x.com",
      phone |-> "555-000-1111"]}

InitCredential ==
    (1 :> [salt |-> 0, salted_hash |-> generateHash("Valid1!pw", 0)]) @@
    (2 :> [salt |-> 0, salted_hash |-> generateHash("Abcde1!2", 0)])

\* no string is under test while requests are served
NoPolicyRun == [newPassword |-> << >>, filler |-> "", returned |-> << >>]

Init ==
    /\ req = [r \in Req |-> IdleRequest]
    /\ account = InitAccount
    /\ credential = InitCredential
    /\ secret \in {undefined, "JSON_WEB_TOKEN"}
    /\ lastWriter = [a \in DOMAIN InitCredential |-> 0]
    /\ policy = NoPolicyRun
    /\ books = << >>
    /\ bookReq = << >>

\* the request arrives: the synchronous middleware runs up to pool.query
Arrive(r) ==
    /\ req[r].pc = "idle"
    /\ \E e \in Endpoints : \E body \in BodiesOf(r, e) :
          LET res == Sync(e, body)
              q == [req[r] EXCEPT !.endpoint = e, !.body = body,
                                  !.logged = IF res.next THEN <<ConsoleDir(body)>> ELSE << >>]
          IN  req' = [req EXCEPT ![r] = Apply(q, res, "lookup")]
    /\ UNCHANGED <<account, credential, secret, lastWriter, policy, books, bookReq>>

\* a lookup .then that verifies the supplied current password against the
\* stored credential and answers 400 when it does not match
LookupResolve_VerifiesCurrent(r) ==
    /\ req[r].pc = "lookup"
    /\ LET q == req[r]
           rows == {row \in Select(q.endpoint, account, q.body) :
                       \/ q.endpoint # "changePassword"
                       \/ /\ row.account_id \in DOMAIN credential
                          /\ generateHash(q.body.password, credential[row.account_id].salt)
                                = credential[row.account_id].salted_hash}
           found == ResolverThen(q.endpoint, rows)
       IN  IF ~found.next
           THEN req' = [req EXCEPT ![r] = Apply(q, found, "update")]
           ELSE \E row \in rows : \E salt \in Salts :
                   LET id == row.account_id
                       res == AndThen(found, RotatorGuard(q.endpoint, id))
                       q2 == [q EXCEPT !.id = id,
                                       !.values = IF res.next
                                                  THEN RotatorValues(q.body, id, salt)
                                                  ELSE << >>]
                   IN  req' = [req EXCEPT ![r] = Apply(q2, res, "update")]
    /\ UNCHANGED <<account, credential, secret, lastWriter, policy, books, bookReq>>

\* the SELECT resolves: .then runs and, through next(), the rotator up to
\* its pool.query
LookupResolve(r) ==
    /\ req[r].pc = "lookup"
    /\ LET q == req[r]
           rows == Select(q.endpoint, account, q.body)
           found == ResolverThen(q.endpoint, rows)
       IN  IF ~found.next
           THEN req' = [req EXCEPT ![r] = Apply(q, found, "update")]
           ELSE \E row \in rows : \E salt \in Salts :
                   LET id == row.account_id
                       res == AndThen(found, RotatorGuard(q.endpoint, id))
                       q2 == [q EXCEPT !.id = id,
                                       !.values = IF res.next
                                                  THEN RotatorValues(q.body, id, salt)
                                                  ELSE << >>]
                   IN  req' = [req EXCEPT ![r] = Apply(q2, res, "update")]
    /\ UNCHANGED <<account, credential, secret, lastWriter, policy, books, bookReq>>

\* a .catch that answers and still calls next(): the rotator runs without an
\* account of its own lookup
LookupReject_CallsNext(r) ==
    /\ req[r].pc = "lookup"
    /\ \E row \in account : \E salt \in Salts :
          LET q == [req[r] EXCEPT !.id = row.account_id,
                                  !.values = RotatorValues(req[r].body, row.account_id, salt)]
          IN  req' = [req EXCEPT ![r] =
                         Apply(q, [ResolverCatch(q.endpoint) EXCEPT !.next = TRUE], "update")]
    /\ UNCHANGED <<account, credential, secret, lastWriter, policy, books, bookReq>>

\* the SELECT rejects: .catch runs
LookupReject(r) ==
    /\ req[r].pc = "lookup"
    /\ req' = [req EXCEPT ![r] = Apply(req[r], ResolverCatch(req[r].endpoint), "done")]
    /\ UNCHANGED <<account, credential, secret, lastWriter, policy, books, bookReq>>

\* the requests that have arrived and are not answered yet
InFlight == {o \in Req : req[o].pc \in {"lookup", "update", "updated"}}

\* the commit of an UPDATE whose account identifier is read from a place
\* the requests share: it holds what the last slot in flight resolved
UpdateCommit_SharedId(r) ==
    /\ req[r].pc = "update"
    /\ LET holders == {o \in InFlight : req[o].id # NoId}
           last == CHOOSE o \in holders : \A p \in holders : p <= o
           id == req[last].id
           values == [req[r].values EXCEPT ![3] = id]
           matched == id \in DOMAIN credential
       IN  /\ credential' = UpdateCredential(credential, values)
           /\ lastWriter' = IF matched THEN [lastWriter EXCEPT ![id] = r] ELSE lastWriter
           /\ req' = [req EXCEPT ![r].pc = "updated",
                                 ![r].committed = TRUE,
                                 ![r].replaced = IF matched THEN <<credential[id]>> ELSE << >>,
                                 ![r].inFlight = InFlight \ {r}]
    /\ UNCHANGED <<account, secret, policy, books, bookReq>>

\* the store commits the UPDATE; the promise is resolved, its callback not yet
\* run (history: what the commit replaced, which requests were in flight)
UpdateCommit(r) ==
    /\ req[r].pc = "update"
    /\ LET id == req[r].values[3]
           matched == id \in DOMAIN credential
       IN  /\ credential' = UpdateCredential(credential, req[r].values)
           /\ lastWriter' = IF matched THEN [lastWriter EXCEPT ![id] = r] ELSE lastWriter
           /\ req' = [req EXCEPT ![r].pc = "updated",
                                 ![r].committed = TRUE,
                                 ![r].replaced = IF matched THEN <<credential[id]>> ELSE << >>,
                                 ![r].inFlight = InFlight \ {r}]
    /\ UNCHANGED <<account, secret, policy, books, bookReq>>

\* a refused UPDATE that has written its row all the same
UpdateReject_Persists(r) ==
    /\ req[r].pc = "update"
    /\ req' = [req EXCEPT ![r] = Apply(req[r], UpdateCatch(req[r].endpoint), "done")]
    /\ credential' = UpdateCredential(credential, req[r].values)
    /\ UNCHANGED <<account, secret, lastWriter, policy, books, bookReq>>

\* the store refuses the UPDATE: nothing is written and .catch runs
UpdateReject(r) ==
    /\ req[r].pc = "update"
    /\ req' = [req EXCEPT ![r] = Apply(req[r], UpdateCatch(req[r].endpoint), "done")]
    /\ UNCHANGED <<account, credential, secret, lastWriter, policy, books, bookReq>>

\* the callback of a committed UPDATE
UpdateThen(r) ==
    /\ req[r].pc = "updated"
    /\ req' = [req EXCEPT ![r] =
                  Apply(req[r],
                        UpdateThenResult(req[r].id, secret, UpdateCatch(req[r].endpoint)),
                        "done")]
    /\ UNCHANGED <<account, credential, secret, lastWriter, policy, books, bookReq>>

Next ==
    \E r \in Req :
        \/ Arrive(r)
        \/ LookupResolve(r)
        \/ LookupReject(r)
        \/ UpdateCommit(r)
        \/ UpdateReject(r)
        \/ UpdateThen(r)

Spec == Init /\ [][Next]_vars

\* The routers over a store whose every call completes: a pending lookup
\* or update is eventually resolved or rejected, and the event loop runs
\* the callback of a settled promise.
StoreCompletes(r) ==
    /\ WF_vars(LookupResolve(r) \/ LookupReject(r))
    /\ WF_vars(UpdateCommit(r) \/ UpdateReject(r))
    /\ WF_vars(UpdateThen(r))

FairSpec == Init /\ [][Next]_vars /\ \A r \in Req : StoreCompletes(r)

\* The same routers over the other tables the store can hold: an account
\* whose identifier is 0, and an account without a row in Account_Credential.
ZeroIdAccount ==
    {[account_id |-> 0, username |-> "alice", email |-> "a@x.com",
      phone |-> "123-456-7890"],
     [account_id |-> 2, username |-> "bob", email |-> "b@x.com",
      phone |-> "555-000-1111"]}

ZeroIdCredential ==
    (0 :> [salt |-> 0, salted_hash |-> generateHash("Valid1!pw", 0)]) @@
    (2 :> [salt |-> 0, salted_hash |-> generateHash("Abcde1!2", 0)])

NoRowCredential == (2 :> [salt |-> 0, salted_hash |-> generateHash("Abcde1!2", 0)])

Stores ==
    {[account |-> InitAccount, credential |-> InitCredential],
     [account |-> ZeroIdAccount, credential |-> ZeroIdCredential],
     [account |-> InitAccount, credential |-> NoRowCredential]}

AnyStoreInit ==
    /\ req = [r \in Req |-> IdleRequest]
    /\ \E store \in Stores :
         /\ account = store.account
         /\ credential = store.credential
         /\ lastWriter = [a \in DOMAIN store.credential |-> 0]
    /\ secret \in {undefined, "JSON_WEB_TOKEN"}
    /\ policy = NoPolicyRun
    /\ books = << >>
    /\ bookReq = << >>

AnyStoreSpec == AnyStoreInit /\ [][Next]_vars

-----------------------------------------------------------------------------
(* The two isValidNewPassword on their own: a string is chosen, typed out   *)
(* to some length and handed to both functions.                            *)

\* code units of every class the functions test, and two of no class
Alphabet == {"A", "z", "0", "!", "-", "?"}
Fillers == {"x", "9", "?"}

\* a string under test: any code units up to MaxSeedLen, then one code unit
\* repeated
Seeds == UNION {[1..n -> Alphabet] : n \in 0..MaxSeedLen}

PolicyInit ==
    /\ req = [r \in Req |-> IdleRequest]
    /\ account = InitAccount
    /\ credential = InitCredential
    /\ secret = "JSON_WEB_TOKEN"
    /\ lastWriter = [a \in DOMAIN InitCredential |-> 0]
    /\ policy \in {[newPassword |-> seed, filler |-> f, returned |-> << >>] :
                      seed \in Seeds, f \in Fillers}
    /\ books = << >>
    /\ bookReq = << >>

\* one more code unit
Type ==
    /\ policy.returned = << >>
    /\ Len(policy.newPassword) < MaxPasswordLen
    /\ policy' = [policy EXCEPT !.newPassword = Append(@, policy.filler)]
    /\ UNCHANGED <<req, account, credential, secret, lastWriter, books, bookReq>>

\* isValidNewPassword(newPassword) of forgotPassword and of changePassword
Validate ==
    /\ policy.returned = << >>
    /\ policy' = [policy EXCEPT !.returned =
                      <<PolicyFP(policy.newPassword),
                        isStringProvidedChars(policy.newPassword)
                           /\ PolicyCP(policy.newPassword)>>]
    /\ UNCHANGED <<req, account, credential, secret, lastWriter, books, bookReq>>

PolicyNext == Type \/ Validate

PolicySpec == PolicyInit /\ [][PolicyNext]_vars

-----------------------------------------------------------------------------
(* The book router.  Table books is a sequence of rows (id, isbn13, title); *)
(* the columns no modelled route reads are left out.  Every await of a      *)
(* handler ends a turn: the store evaluates the query and the handler       *)
(* continues to its next await or to its response.                          *)

NumBookReq == 2    \* concurrent requests to the book router

BookReq == 1..NumBookReq

\* new Date().getFullYear()
CurrentYear == 2025

\* validationFunctions.isNumberProvided of a body field: the field holds a
\* number
isNumberProvided(body, field) == field \in DOMAIN body

\* isStringProvided of a body field
isStringField(body, field) == field \in DOMAIN body /\ isStringProvided(body[field])

\* number.toString(): a number is named by its decimal digits
NumberToString(n) == Chars(n)

\* number < 0
IsNegative(n) == Len(Chars(n)) > 0 /\ Chars(n)[1] = "-"

\* const format = (row) => ({ id, IBook: { ... } })
Format(row) ==
    [id |-> row.id,
     IBook |-> [isbn13 |-> row.isbn13, title |-> row.title,
                ratings |-> [average |-> row.rating_avg, count |-> row.rating_count,
                             rating_1 |-> row.rating_1_star, rating_2 |-> row.rating_2_star,
                             rating_3 |-> row.rating_3_star, rating_4 |-> row.rating_4_star,
                             rating_5 |-> row.rating_5_star]]]

\* rows.map(format)
RECURSIVE MapFormat(_)
MapFormat(rows) ==
    IF rows = << >> THEN << >> ELSE <<Format(Head(rows))>> \o MapFormat(Tail(rows))

\* mwValidBookBody
mwValidBookBody(body) ==
    IF ~isStringField(body, "title") \/ Len(Chars(body.title)) < 3
    THEN Respond("mwValidBookBody", 400,
                 [message |-> "Title is required and should be at least 3 characters"])
    ELSE IF ~isStringField(body, "author")
    THEN Respond("mwValidBookBody", 400, [message |-> "Author is required"])
    ELSE IF \/ ~isNumberProvided(body, "isbn")
            \/ Len(NumberToString(body.isbn)) # 13
            \/ IsNegative(body.isbn)
    THEN Respond("mwValidBookBody", 400,
                 [message |-> "ISBN must be a positive 13-digit number"])
    ELSE IF \/ ~isNumberProvided(body, "date")
            \/ body.date < 1000
            \/ body.date > CurrentYear
    THEN Respond("mwValidBookBody", 400,
                 [message |-> "Date must be a valid year between 1000 and the current year"])
    ELSE Continue("mwValidBookBody")

\* SELECT * FROM books WHERE isbn13 = $1
SelectByIsbn(rows, isbn) ==
    LET Test(row) == row.isbn13 = isbn IN SelectSeq(rows, Test)

\* POST /book after the check: the ISBN is taken, or go on to MAX(id)
PostAfterCheck(rowCount) ==
    IF rowCount > 0
    THEN Respond("post.check", 400, [message |-> "Book with ISBN already exists"])
    ELSE Continue("post.check")

NoMax == 0 - 1     \* max_id of an empty table (null)

\* SELECT MAX(id) AS max_id FROM books
MaxId(rows) ==
    IF rows = << >> THEN NoMax
    ELSE CHOOSE m \in {rows[i].id : i \in 1..Len(rows)} :
            \A i \in 1..Len(rows) : rows[i].id <= m

\* max_id !== null ? max_id + 1 : 1
NewID(max_id) == IF max_id # NoMax THEN max_id + 1 ELSE 1

\* INSERT INTO books (title, ..., isbn13, ..., id, ...) VALUES (...) RETURNING *
\* a float column, kept as the quotient it was computed as
Quotient(num, den) == [num |-> num, den |-> den]

\* the rating columns of the INSERT: 2.5, 1, 1, 1, 1, 1, 1
InsertRatings ==
    [rating_avg |-> Quotient(5, 2), rating_count |-> 1,
     rating_1_star |-> 1, rating_2_star |-> 1, rating_3_star |-> 1,
     rating_4_star |-> 1, rating_5_star |-> 1]

InsertedRow(body, newID) ==
    [id |-> newID, isbn13 |-> body.isbn, title |-> body.title] @@ InsertRatings

\* the 201 response
PostCreated(rows) ==
    Respond("post.insert", 201,
            [entries |-> MapFormat(rows), message |-> "Book added successfully"])

\* catch (error) of POST /book
PostCatch ==
    Respond("post.catch", 500, [message |-> "Internal server error - please contact support"])

\* the lowercase of a code unit, as ILIKE folds it
ToLower(c) ==
    CASE c = "A" -> "a"
      [] c = "B" -> "b"
      [] c = "C" -> "c"
      [] c = "D" -> "d"
      [] c = "E" -> "e"
      [] c = "F" -> "f"
      [] c = "G" -> "g"
      [] c = "H" -> "h"
      [] c = "I" -> "i"
      [] c = "J" -> "j"
      [] c = "K" -> "k"
      [] c = "L" -> "l"
      [] c = "M" -> "m"
      [] c = "N" -> "n"
      [] c = "O" -> "o"
      [] c = "P" -> "p"
      [] c = "Q" -> "q"
      [] c = "R" -> "r"
      [] c = "S" -> "s"
      [] c = "T" -> "t"
      [] c = "U" -> "u"
      [] c = "V" -> "v"
      [] c = "W" -> "w"
      [] c = "X" -> "x"
      [] c = "Y" -> "y"
      [] c = "Z" -> "z"
      [] OTHER -> c

\* text LIKE pattern from positions j and i on: % is any run of code units,
\* _ any single one (patterns with the escape character are not modelled);
\* fold is the case folding of ILIKE
RECURSIVE LikeFrom(_, _, _, _, _)
LikeFrom(pattern, text, i, j, fold) ==
    IF i > Len(pattern) THEN j > Len(text)
    ELSE IF pattern[i] = "%"
         THEN \/ LikeFrom(pattern, text, i + 1, j, fold)
              \/ j <= Len(text) /\ LikeFrom(pattern, text, i, j + 1, fold)
    ELSE /\ j <= Len(text)
         /\ \/ pattern[i] = "_"
            \/ IF fold THEN ToLower(pattern[i]) = ToLower(text[j])
                       ELSE pattern[i] = text[j]
         /\ LikeFrom(pattern, text, i + 1, j + 1, fold)

Like(text, pattern) == LikeFrom(pattern, text, 1, 1, FALSE)
ILike(text, pattern) == LikeFrom(pattern, text, 1, 1, TRUE)

\* String.prototype.trim, for strings with blanks as their only white space
RECURSIVE TrimLeft(_)
TrimLeft(c) == IF c # << >> /\ Head(c) = " " THEN TrimLeft(Tail(c)) ELSE c

RECURSIVE TrimRight(_)
TrimRight(c) ==
    IF c # << >> /\ c[Len(c)] = " " THEN TrimRight(SubSeq(c, 1, Len(c) - 1)) ELSE c

Trim(c) == TrimRight(TrimLeft(c))

\* mwValidBookDeleteSeries
mwValidBookDeleteSeries(seriesName) ==
    IF ~isStringProvided(seriesName) \/ Trim(Chars(seriesName)) = << >>
    THEN Respond("mwValidBookDeleteSeries", 400, [message |-> "Series name is required"])
    ELSE Continue("mwValidBookDeleteSeries")

\* title ILIKE '%(' || $1 || ', #%'
SeriesTest(title, seriesName) ==
    ILike(Chars(title), <<"%", "(">> \o Chars(seriesName) \o <<",", " ", "#", "%">>)

\* title = $1 AND title NOT LIKE '%(%)%'
StandaloneTest(title, seriesName) ==
    /\ title = seriesName
    /\ ~Like(Chars(title), <<"%", "(", "%", ")", "%">>)

\* DELETE FROM books WHERE title ILIKE ... RETURNING *: the rows deleted
SeriesRows(rows, seriesName) ==
    LET Test(row) == SeriesTest(row.title, seriesName) IN SelectSeq(rows, Test)

\* ... and the rows left
SeriesRest(rows, seriesName) ==
    LET Test(row) == ~SeriesTest(row.title, seriesName) IN SelectSeq(rows, Test)

\* DELETE FROM books WHERE title = $1 AND title NOT LIKE '%(%)%' RETURNING *
StandaloneRows(rows, seriesName) ==
    LET Test(row) == StandaloneTest(row.title, seriesName) IN SelectSeq(rows, Test)

StandaloneRest(rows, seriesName) ==
    LET Test(row) == ~StandaloneTest(row.title, seriesName) IN SelectSeq(rows, Test)

\* the response after the series DELETE returned rows
SeriesDeleted(seriesRows) ==
    Respond("delete.series", 200,
            [message |-> <<"Successfully deleted", Len(seriesRows),
                           "books within the specified series">>,
             entries |-> MapFormat(seriesRows)])

\* the response after the standalone DELETE returned rows: the entries are
\* seriesRows.map(format), the rows of the first DELETE
StandaloneDeleted(seriesRows, seriesName) ==
    Respond("delete.standalone", 200,
            [message |-> <<"Successfully deleted the standalone book titled", seriesName>>,
             entries |-> MapFormat(seriesRows)])

DeleteNotFound ==
    Respond("delete.standalone", 404,
            [message |-> "No books found with the specified series name or title"])

\* catch (error) of DELETE /book/series/:seriesName
DeleteCatch == Respond("delete.catch", 500, [message |-> "Internal server error"])

\* ---- GET /book/all ----

DefaultLimit == 10
DefaultOffset == 0

\* a query-string value: text that is a number, or text that is not
QueryNumber(n) == [numeric |-> TRUE, value |-> n]
QueryText == [numeric |-> FALSE, value |-> 0]

\* isNumberProvided(request.query.<field>)
isNumberProvidedQuery(query, field) == field \in DOMAIN query /\ query[field].numeric

\* +request.query.<field>
ToNumber(query, field) == query[field].value

\* const limit = isNumberProvided(limit) && +limit > 0 ? +limit : 10
UsedLimit(query) ==
    IF isNumberProvidedQuery(query, "limit") /\ ToNumber(query, "limit") > 0
    THEN ToNumber(query, "limit")
    ELSE DefaultLimit

\* const offset = isNumberProvided(offset) && +offset >= 0 ? +offset : 0
UsedOffset(query) ==
    IF isNumberProvidedQuery(query, "offset") /\ ToNumber(query, "offset") >= 0
    THEN ToNumber(query, "offset")
    ELSE DefaultOffset

RemoveAt(s, i) == SubSeq(s, 1, i - 1) \o SubSeq(s, i + 1, Len(s))

RECURSIVE Perms(_)
Perms(s) ==
    IF s = << >> THEN {<< >>}
    ELSE UNION {{<<s[i]>> \o p : p \in Perms(RemoveAt(s, i))} : i \in 1..Len(s)}

RowsWithId(rows, id) == LET Test(row) == row.id = id IN SelectSeq(rows, Test)

\* ORDER BY id: every order of the rows with ascending ids (rows with equal
\* ids come in any order)
RECURSIVE OrderById(_, _)
OrderById(rows, ids) ==
    IF ids = {} THEN {<< >>}
    ELSE LET m == CHOOSE i \in ids : \A j \in ids : i <= j
         IN {a \o b : a \in Perms(RowsWithId(rows, m)), b \in OrderById(rows, ids \ {m})}

\* LIMIT $1 OFFSET $2
Page(sorted, limit, offset) ==
    LET last == IF offset + limit < Len(sorted) THEN offset + limit ELSE Len(sorted)
    IN IF offset + 1 > last THEN << >> ELSE SubSeq(sorted, offset + 1, last)

\* SELECT * FROM books ORDER BY id LIMIT $1 OFFSET $2: the possible results
SelectPage(rows, limit, offset) ==
    {Page(sorted, limit, offset) : sorted \in OrderById(rows, {rows[i].id : i \in 1..Len(rows)})}

\* the 200 response of GET /book/all
GetAllOk(rows, count, limit, offset) ==
    Respond("get.all", 200,
            [entries |-> MapFormat(rows),
             pagination |-> [totalRecords |-> count, limit |-> limit, offset |-> offset,
                             nextPage |-> limit + offset]])

\* catch (error) of GET /book/all
GetAllCatch == Respond("get.catch", 500, [message |-> "Internal server error"])

\* ---- PUT /book/rate/:id ----

RatingFields ==
    <<"rating_1_star", "rating_2_star", "rating_3_star", "rating_4_star", "rating_5_star">>

\* rating_N_star !== undefined
RatingProvided(body, field) == field \in DOMAIN body

\* the values array before the id is pushed: the provided ratings, in order
RateValues(body) ==
    LET Provided(k) == RatingProvided(body, RatingFields[k])
        stars == SelectSeq(<<1, 2, 3, 4, 5>>, Provided)
    IN [i \in 1..Len(stars) |-> body[RatingFields[stars[i]]]]

\* values.join(' + '), evaluated
RECURSIVE JoinPlus(_)
JoinPlus(values) == IF values = << >> THEN 0 ELSE Head(values) + JoinPlus(Tail(values))

\* what `rating_N_star = rating_N_star + $k` adds; a column left out of the
\* SET list keeps its value
Added(body, field) == IF RatingProvided(body, field) THEN body[field] ELSE 0

\* rating_1_star * 1 + ... + rating_5_star * 5
WeightedSum(row) ==
    row.rating_1_star * 1 + row.rating_2_star * 2 + row.rating_3_star * 3
    + row.rating_4_star * 4 + row.rating_5_star * 5

NoAverage == Quotient(0, 0)      \* NULL

\* (...)::float / NULLIF(rating_count, 0)
Average(weighted, count) == IF count = 0 THEN NoAverage ELSE Quotient(weighted, count)

\* the row the UPDATE writes: every expression of the SET list reads the
\* columns of the row as it was before the statement
RatedRow(row, body) ==
    [row EXCEPT !.rating_1_star = @ + Added(body, "rating_1_star"),
                !.rating_2_star = @ + Added(body, "rating_2_star"),
                !.rating_3_star = @ + Added(body, "rating_3_star"),
                !.rating_4_star = @ + Added(body, "rating_4_star"),
                !.rating_5_star = @ + Added(body, "rating_5_star"),
                !.rating_count = @ + JoinPlus(RateValues(body)),
                !.rating_avg = Average(WeightedSum(row), row.rating_count)]

\* UPDATE books SET ... WHERE id = $n: the table afterwards
RateTable(rows, body, id) ==
    [i \in 1..Len(rows) |-> IF rows[i].id = id THEN RatedRow(rows[i], body) ELSE rows[i]]

\* ... RETURNING *
RateReturning(rows, body, id) == RowsWithId(RateTable(rows, body, id), id)

RateNoFields ==
    Respond("rate", 400, [message |-> "No valid rating fields provided for update"])

RateNotFound == Respond("rate.update", 404, [message |-> "Book not found"])

RateOk(rows) ==
    Respond("rate.update", 200,
            [message |-> "Book ratings updated successfully", entries |-> MapFormat(rows)])

\* catch (error) of PUT /book/rate/:id
RateCatch == Respond("rate.catch", 500, [message |-> "Internal server error"])

\* ---- the requests to the book router ----

NoBody == [none |-> TRUE]

IdleBookRequest ==
    [op |-> "none", pc |-> "idle", input |-> NoBody, newID |-> 0, limit |-> 0, offset |-> 0,
     rows |-> << >>, seriesRows |-> << >>, sent |-> << >>, ran |-> << >>,
     inserted |-> << >>, deleted |-> << >>, before |-> << >>]

\* a JSON body of POST /book; a field the client left out is not in the record
BookBody(title, author, isbn, date) ==
    [title |-> title, author |-> author, isbn |-> isbn, date |-> date]

Without(body, field) == [f \in DOMAIN body \ {field} |-> body[f]]

Dune == BookBody("Sun", "Herbert", "9780441013593", 1965)

PostBodies(r) ==
    IF r = 1
    THEN {Dune,
          [Dune EXCEPT !.title = "Ab"],
          Without(Dune, "title"),
          Without(Dune, "author"),
          Without(Dune, "isbn"),
          [Dune EXCEPT !.isbn = "978044101"],
          [Dune EXCEPT !.isbn = "-978044101359"],
          Without(Dune, "date"),
          [Dune EXCEPT !.date = 999],
          [Dune EXCEPT !.date = CurrentYear + 1],
          [Dune EXCEPT !.isbn = "9780441172719", !.title = "Moon"]}
    ELSE {[Dune EXCEPT !.title = "Moon"],
          [Dune EXCEPT !.isbn = "9780441172719", !.title = "Mars"]}

QueryValues == {QueryText} \cup {QueryNumber(n) : n \in {0 - 1, 0, 1, 2}}

Queries(r) ==
    IF r = 1
    THEN {<< >>}
         \cup {[limit |-> l] : l \in QueryValues}
         \cup {[offset |-> o] : o \in QueryValues}
         \cup {[limit |-> l, offset |-> o] : l \in QueryValues, o \in QueryValues}
    ELSE {[limit |-> QueryNumber(1), offset |-> QueryNumber(1)]}

\* bodies of PUT /book/rate/:id: no rating field, one, several, all five
RateBodies(r) ==
    IF r = 1
    THEN {<< >>,
          [title |-> "Sun"],
          [rating_5_star |-> 1],
          [rating_1_star |-> 0],
          [rating_1_star |-> 2, rating_3_star |-> 1],
          [rating_1_star |-> 1, rating_2_star |-> 1, rating_3_star |-> 1,
           rating_4_star |-> 1, rating_5_star |-> 1]}
    ELSE {[rating_4_star |-> 1]}

\* the :id route parameters: books of the shelf, and no book's id
RateIds(r) == IF r = 1 THEN {1, 3, 99} ELSE {3}

SeriesNames(r) ==
    IF r = 1 THEN {"Sun", "sun", "Moon", "Mars", "Ubik (1969)", "%", "   "}
    ELSE {"Sun", "Moon"}

\* the tables the router starts from: an empty one, and one with a series of
\* two books, a standalone book named as that series, a standalone book, and
\* a book whose title ends with a parenthesised year
Shelf ==
    <<[id |-> 1, isbn13 |-> "9780441013593", title |-> "Dawn (Sun, #1)"] @@ InsertRatings,
      [id |-> 2, isbn13 |-> "9780000000002", title |-> "Dusk (Sun, #2)"] @@ InsertRatings,
      [id |-> 3, isbn13 |-> "9780000000003", title |-> "Sun"] @@ InsertRatings,
      [id |-> 4, isbn13 |-> "9780000000004", title |-> "Moon"] @@ InsertRatings,
      [id |-> 5, isbn13 |-> "9780000000005", title |-> "Ubik (1969)"] @@ InsertRatings>>

BookInit ==
    /\ req = [r \in Req |-> IdleRequest]
    /\ account = << >>
    /\ credential = << >>
    /\ secret = undefined
    /\ lastWriter = [a \in {} |-> 0]
    /\ policy = NoPolicyRun
    /\ books \in {<< >>, Shelf}
    /\ bookReq = [r \in BookReq |-> IdleBookRequest]

AuthUnchanged == UNCHANGED <<req, account, credential, secret, lastWriter, policy>>

BookAnswer(r, result, pc) ==
    [bookReq EXCEPT ![r].sent = @ \o result.sent, ![r].ran = @ \o result.ran, ![r].pc = pc]

\* POST /book arrives: mwValidBookBody runs and the handler reaches its first await
PostArrive(r) ==
    /\ bookReq[r].pc = "idle"
    /\ \E body \in PostBodies(r) :
         LET result == mwValidBookBody(body)
             arrived == [bookReq EXCEPT ![r].op = "post", ![r].input = body]
         IN bookReq' = [arrived EXCEPT ![r].sent = result.sent, ![r].ran = result.ran,
                                       ![r].pc = IF result.next THEN "check" ELSE "done"]
    /\ UNCHANGED books
    /\ AuthUnchanged

\* await pool.query(checkQuery, [isbn]) resolves
PostCheck(r) ==
    /\ bookReq[r].op = "post" /\ bookReq[r].pc = "check"
    /\ LET result == PostAfterCheck(Len(SelectByIsbn(books, bookReq[r].input.isbn)))
       IN bookReq' = [BookAnswer(r, result, IF result.next THEN "max" ELSE "done")
                        EXCEPT ![r].before = books]
    /\ UNCHANGED books
    /\ AuthUnchanged

\* await pool.query(idQuery) resolves
PostMax(r) ==
    /\ bookReq[r].op = "post" /\ bookReq[r].pc = "max"
    /\ bookReq' = [bookReq EXCEPT ![r].newID = NewID(MaxId(books)), ![r].pc = "insert"]
    /\ UNCHANGED books
    /\ AuthUnchanged

\* await pool.query(theQuery, values) resolves: the row is in the table
PostInsert(r) ==
    /\ bookReq[r].op = "post" /\ bookReq[r].pc = "insert"
    /\ LET row == InsertedRow(bookReq[r].input, bookReq[r].newID)
       IN /\ books' = Append(books, row)
          /\ bookReq' = [BookAnswer(r, PostCreated(<<row>>), "done")
                           EXCEPT ![r].inserted = <<row>>]
    /\ AuthUnchanged

\* one of the three queries of POST /book rejects
PostFail(r) ==
    /\ bookReq[r].op = "post" /\ bookReq[r].pc \in {"check", "max", "insert"}
    /\ bookReq' = BookAnswer(r, PostCatch, "done")
    /\ UNCHANGED books
    /\ AuthUnchanged

\* GET /book/all arrives: limit and offset are computed, the page query is sent
GetArrive(r) ==
    /\ bookReq[r].pc = "idle"
    /\ \E query \in Queries(r) :
         bookReq' = [bookReq EXCEPT ![r].op = "get", ![r].input = query,
                                    ![r].limit = UsedLimit(query),
                                    ![r].offset = UsedOffset(query),
                                    ![r].pc = "page"]
    /\ UNCHANGED books
    /\ AuthUnchanged

\* await pool.query(theQuery, values) resolves
GetPage(r) ==
    /\ bookReq[r].op = "get" /\ bookReq[r].pc = "page"
    /\ \E rows \in SelectPage(books, bookReq[r].limit, bookReq[r].offset) :
         bookReq' = [bookReq EXCEPT ![r].rows = rows, ![r].pc = "count"]
    /\ UNCHANGED books
    /\ AuthUnchanged

\* await pool.query('SELECT count(*) ...') resolves and the response is sent
GetCount(r) ==
    /\ bookReq[r].op = "get" /\ bookReq[r].pc = "count"
    /\ bookReq' = BookAnswer(r, GetAllOk(bookReq[r].rows, Len(books), bookReq[r].limit,
                                         bookReq[r].offset), "done")
    /\ UNCHANGED books
    /\ AuthUnchanged

\* one of the two queries of GET /book/all rejects
GetFail(r) ==
    /\ bookReq[r].op = "get" /\ bookReq[r].pc \in {"page", "count"}
    /\ bookReq' = BookAnswer(r, GetAllCatch, "done")
    /\ UNCHANGED books
    /\ AuthUnchanged

\* DELETE /book/series/:seriesName arrives: mwValidBookDeleteSeries runs
DeleteArrive(r) ==
    /\ bookReq[r].pc = "idle"
    /\ \E seriesName \in SeriesNames(r) :
         LET result == mwValidBookDeleteSeries(seriesName)
             arrived == [bookReq EXCEPT ![r].op = "delete", ![r].input = seriesName]
         IN bookReq' = [arrived EXCEPT ![r].sent = result.sent, ![r].ran = result.ran,
                                       ![r].pc = IF result.next THEN "series" ELSE "done"]
    /\ UNCHANGED books
    /\ AuthUnchanged

\* await pool.query(seriesQuery, [seriesName]) resolves
DeleteSeries(r) ==
    /\ bookReq[r].op = "delete" /\ bookReq[r].pc = "series"
    /\ LET seriesName == bookReq[r].input
           seriesRows == SeriesRows(books, seriesName)
           removed == [bookReq EXCEPT ![r].seriesRows = seriesRows,
                                      ![r].deleted = @ \o seriesRows,
                                      ![r].before = books]
       IN /\ books' = SeriesRest(books, seriesName)
          /\ bookReq' =
               IF Len(seriesRows) > 0
               THEN [removed EXCEPT ![r].sent = @ \o SeriesDeleted(seriesRows).sent,
                                    ![r].ran = @ \o SeriesDeleted(seriesRows).ran,
                                    ![r].pc = "done"]
               ELSE [removed EXCEPT ![r].pc = "standalone"]
    /\ AuthUnchanged

\* await pool.query(standaloneQuery, [seriesName]) resolves
DeleteStandalone(r) ==
    /\ bookReq[r].op = "delete" /\ bookReq[r].pc = "standalone"
    /\ LET seriesName == bookReq[r].input
           standaloneRows == StandaloneRows(books, seriesName)
           result == IF Len(standaloneRows) > 0
                     THEN StandaloneDeleted(bookReq[r].seriesRows, seriesName)
                     ELSE DeleteNotFound
       IN /\ books' = StandaloneRest(books, seriesName)
          /\ bookReq' = [BookAnswer(r, result, "done")
                           EXCEPT ![r].deleted = @ \o standaloneRows]
    /\ AuthUnchanged

\* one of the two DELETE queries rejects
DeleteFail(r) ==
    /\ bookReq[r].op = "delete" /\ bookReq[r].pc \in {"series", "standalone"}
    /\ bookReq' = BookAnswer(r, DeleteCatch, "done")
    /\ UNCHANGED books
    /\ AuthUnchanged

\* PUT /book/rate/:id arrives: the SET list is built; with no rating field
\* the handler answers 400, otherwise it sends the UPDATE
RateArrive(r) ==
    /\ bookReq[r].pc = "idle"
    /\ \E body \in RateBodies(r) : \E id \in RateIds(r) :
         LET arrived == [bookReq EXCEPT ![r].op = "rate",
                                        ![r].input = [body |-> body, id |-> id]]
         IN bookReq' =
              IF Len(RateValues(body)) = 0
              THEN [arrived EXCEPT ![r].sent = RateNoFields.sent, ![r].ran = RateNoFields.ran,
                                   ![r].pc = "done"]
              ELSE [arrived EXCEPT ![r].pc = "rate"]
    /\ UNCHANGED books
    /\ AuthUnchanged

\* await pool.query(theQuery, values) resolves
RateUpdate(r) ==
    /\ bookReq[r].op = "rate" /\ bookReq[r].pc = "rate"
    /\ LET body == bookReq[r].input.body
           id == bookReq[r].input.id
           rows == RateReturning(books, body, id)
           result == IF Len(rows) = 0 THEN RateNotFound ELSE RateOk(rows)
       IN /\ books' = RateTable(books, body, id)
          /\ bookReq' = [BookAnswer(r, result, "done")
                           EXCEPT ![r].rows = rows, ![r].before = books]
    /\ AuthUnchanged

\* the UPDATE rejects
RateFail(r) ==
    /\ bookReq[r].op = "rate" /\ bookReq[r].pc = "rate"
    /\ bookReq' = BookAnswer(r, RateCatch, "done")
    /\ UNCHANGED books
    /\ AuthUnchanged

BookNext ==
    \E r \in BookReq :
        \/ PostArrive(r)
        \/ PostCheck(r)
        \/ PostMax(r)
        \/ PostInsert(r)
        \/ PostFail(r)
        \/ GetArrive(r)
        \/ GetPage(r)
        \/ GetCount(r)
        \/ GetFail(r)
        \/ DeleteArrive(r)
        \/ DeleteSeries(r)
        \/ DeleteStandalone(r)
        \/ DeleteFail(r)
        \/ RateArrive(r)
        \/ RateUpdate(r)
        \/ RateFail(r)

BookSpec == BookInit /\ [][BookNext]_vars

-----------------------------------------------------------------------------
(* Vocabulary of the properties.                                           *)

Arrived(r) == req[r].pc # "idle"
Done(r) == req[r].pc = "done"
Responded(r) == Len(req[r].sent) > 0
Status(r) == req[r].sent[1].status
Message(r) == req[r].sent[1].body.message
HasToken(resp) == "resetToken" \in DOMAIN resp.body

\* the names of the stages and callbacks that ran for the request
StagesRan(r) == {req[r].ran[i].stage : i \in 1..Len(req[r].ran)}

\* the request issued its SELECT / its UPDATE
IssuedLookup(r) == "IdentityResolver" \in StagesRan(r)
IssuedUpdate(r) == req[r].values # << >>

\* a store call of the request was rejected, or jwt.sign threw
CatchRan(r) == \E st \in StagesRan(r) : st \in {"IdentityResolver.catch", "CredentialRotator.catch"}

\* no store call and no store effect
NoStoreAccess(r) == ~IssuedLookup(r) /\ ~IssuedUpdate(r) /\ ~req[r].committed

\* login (outside these routers): the digest of the candidate password under
\* the stored salt equals the stored salted hash
VerifiesAgainst(row, pw) == generateHash(pw, row.salt) = row.salted_hash

Authenticate(a, pw) == a \in DOMAIN credential /\ VerifiesAgainst(credential[a], pw)

-----------------------------------------------------------------------------
(* C1.  Verify-after-rotate.                                               *)

\* C1 as claimed: in the state right after a request received its 200 for
\* account X with new password P, P authenticates X against the stored salt
\* and hash, and a password that was valid for the replaced credential (and
\* is not P itself) does not -- also when other requests for X run
\* concurrently.
C1_VerifyAtResponse ==
    [][\A r \in Req :
          (req[r].pc = "updated" /\ req'[r].pc = "done" /\ req'[r].sent[1].status = 200)
          => LET a == req[r].id
                 P == req[r].body.newPassword
             IN  /\ a \in DOMAIN credential'
                 /\ VerifiesAgainst(credential'[a], P)
                 /\ \A old \in Passwords \ {P} :
                       (req[r].replaced # << >> /\ VerifiesAgainst(req[r].replaced[1], old))
                       => ~VerifiesAgainst(credential'[a], old)]_vars

\* C1 as amended: whenever the update of a request for account X with new
\* password P has committed and no other update for X has committed since
\* (in particular right after the commit, and at the 200 response when no
\* rotation of X was committed in between), P authenticates X and no other
\* password does, the previously valid one included.
C1_VerifyAfterRotate ==
    \A r \in Req :
        (req[r].committed /\ req[r].replaced # << >> /\ lastWriter[req[r].id] = r)
        => /\ Authenticate(req[r].id, req[r].body.newPassword)
           /\ \A other \in Passwords \ {req[r].body.newPassword} :
                 ~Authenticate(req[r].id, other)

\* a request answered 200 that is the last writer of its account and whose
\* new password differs from the one it replaced
C1_Witness ==
    \E r \in Req :
        /\ Done(r) /\ Responded(r) /\ Status(r) = 200
        /\ lastWriter[req[r].id] = r
        /\ ~VerifiesAgainst(req[r].replaced[1], req[r].body.newPassword)

-----------------------------------------------------------------------------
(* C2.  Short-circuit.                                                     *)

\* C2: a request sends at most one response; once a stage or callback has
\* sent a failure response (status >= 400) it is the last one that ran, the
\* request is finished, and no stage or callback ran twice.
C2_ShortCircuit ==
    \A r \in Req :
        LET ran == req[r].ran
        IN  /\ Len(req[r].sent) <= 1
            /\ \A i \in 1..Len(ran) :
                  ran[i].status >= 400 => (i = Len(ran) /\ Done(r))
            /\ \A i, j \in 1..Len(ran) : ran[i].stage = ran[j].stage => i = j
            /\ Done(r) => Len(req[r].sent) = 1

\* a forgotPassword request stopped by its policy validator: two stages ran,
\* the store was never reached
C2_Witness ==
    \E r \in Req :
        /\ req[r].endpoint = "forgotPassword"
        /\ Done(r) /\ Status(r) = 400
        /\ Len(req[r].ran) = 2
        /\ NoStoreAccess(r)

-----------------------------------------------------------------------------
(* C3.  Missing fields.                                                    *)

\* the body fields each endpoint's request validator reads
RequiredFields(e) ==
    IF e = "changePassword"
    THEN {"username", "password", "newPassword", "confirmNewPassword"}
    ELSE {"username", "email", "phone", "newPassword", "confirmNewPassword"}

MissingMessage(e) ==
    IF e = "changePassword" THEN "Missing required information" ELSE "Missing a parameter"

MissingRequired(r) ==
    \E f \in RequiredFields(req[r].endpoint) :
        req[r].body[f] = undefined \/ req[r].body[f] = ""

\* C3: a request with a required field absent or empty is answered 400 with
\* the endpoint's missing-parameter message, and nothing else: no lookup,
\* no update.
C3_MissingField ==
    \A r \in Req :
        (Arrived(r) /\ MissingRequired(r))
        => /\ req[r].sent = <<[status |-> 400,
                               body |-> [message |-> MissingMessage(req[r].endpoint)]]>>
           /\ Done(r)
           /\ NoStoreAccess(r)

\* a changePassword request that lacks nothing but confirmNewPassword
C3_Witness ==
    \E r \in Req :
        /\ req[r].endpoint = "changePassword"
        /\ Done(r)
        /\ req[r].body.confirmNewPassword = undefined
        /\ \A f \in {"username", "password", "newPassword"} :
              req[r].body[f] \notin {undefined, ""}
        /\ isValidNewPasswordCP(req[r].body.newPassword)

-----------------------------------------------------------------------------
(* C4.  Invalid new password.                                              *)

\* the five rules, as the documentation of both endpoints lists them
MeetsPasswordRules(pw) ==
    /\ pw # undefined
    /\ Len(Chars(pw)) \in 8..24
    /\ \E i \in 1..Len(Chars(pw)) : Chars(pw)[i] \in UpperCase
    /\ \E i \in 1..Len(Chars(pw)) : Chars(pw)[i] \in LowerCase
    /\ \E i \in 1..Len(Chars(pw)) : Chars(pw)[i] \in Digit
    /\ \E i \in 1..Len(Chars(pw)) : Chars(pw)[i] \in Special

\* C4: a request whose newPassword breaks one of the rules is answered 400
\* and performs no lookup and no update.
C4_InvalidNewPassword ==
    \A r \in Req :
        (Arrived(r) /\ ~MeetsPasswordRules(req[r].body.newPassword))
        => /\ Done(r)
           /\ Len(req[r].sent) = 1 /\ Status(r) = 400
           /\ NoStoreAccess(r)

\* a request with every field present whose new password only lacks an
\* uppercase letter, refused by the policy validator
C4_Witness ==
    \E r \in Req :
        /\ Done(r)
        /\ ~MissingRequired(r)
        /\ req[r].body.newPassword = "abcde1!2"
        /\ req[r].ran[Len(req[r].ran)] = [stage |-> "PolicyValidator", status |-> 400]

-----------------------------------------------------------------------------
(* C5.  Password mismatch.                                                 *)

\* C5 as claimed: a request whose newPassword differs from its
\* confirmNewPassword never changes a credential and, when no store call of
\* it fails, is answered 400.
C5_MismatchRejected ==
    \A r \in Req :
        (Arrived(r) /\ req[r].body.newPassword # req[r].body.confirmNewPassword)
        => /\ ~req[r].committed
           /\ (Done(r) /\ ~CatchRan(r)) => Status(r) = 400

-----------------------------------------------------------------------------
(* C6.  forgotPassword, no matching account.                               *)

\* the request's username, email and phone all equal the row's
MatchesTriple(row, body) ==
    /\ row.username = body.username
    /\ row.email = body.email
    /\ row.phone = body.phone

\* C6: a forgotPassword request that passed validation and whose triple
\* matches no account issues no update and changes no credential, and the
\* response to its lookup, when the lookup returns, is the 404 "User does not
\* exist" (a lookup the store rejects is answered by the .catch).
C6_ForgotNoMatch ==
    \A r \in Req :
        (/\ req[r].endpoint = "forgotPassword"
         /\ IssuedLookup(r)
         /\ ~\E row \in account : MatchesTriple(row, req[r].body))
        => /\ ~IssuedUpdate(r) /\ ~req[r].committed
           /\ (Done(r) /\ ~CatchRan(r))
              => req[r].sent = <<[status |-> 404,
                                  body |-> [message |-> "User does not exist within the Database"]]>>

\* a finished forgotPassword request whose username and email are those of
\* an account and whose phone is another well-formed number, answered 404
C6_Witness ==
    \E r \in Req :
        /\ req[r].endpoint = "forgotPassword"
        /\ Done(r) /\ Status(r) = 404
        /\ \E row \in account :
              /\ row.username = req[r].body.username
              /\ row.email = req[r].body.email
              /\ row.phone # req[r].body.phone

-----------------------------------------------------------------------------
(* C7.  changePassword, no matching account.                               *)

-----------------------------------------------------------------------------
(* C8.  changePassword never checks the current password.                  *)

\* the lookup returned and the update committed
StoreCallsSucceeded(r) == "IdentityResolver.then" \in StagesRan(r) /\ req[r].committed

\* username of an account, new password valid and confirmed
WellFormedChange(r) ==
    /\ req[r].endpoint = "changePassword"
    /\ \E row \in account : row.username = req[r].body.username
    /\ MeetsPasswordRules(req[r].body.newPassword)
    /\ req[r].body.newPassword = req[r].body.confirmNewPassword

PassedRequestValidator(r) ==
    /\ Len(req[r].ran) >= 1
    /\ req[r].ran[1] = [stage |-> "RequestValidator", status |-> 0]

-----------------------------------------------------------------------------
(* C9.  The token follows the update.                                      *)

\* the account a request's own lookup resolves
ResolvesTo(r, a) ==
    \E row \in account :
        /\ row.account_id = a
        /\ row.username = req[r].body.username
        /\ req[r].endpoint = "forgotPassword" => MatchesTriple(row, req[r].body)

\* C9: every response that carries a token was sent by a request whose own
\* update had committed, the token embeds the account identifier that
\* request's lookup resolved and its update targeted, and every 200 response
\* carries a token.
C9_TokenAfterUpdate ==
    \A r \in Req : \A i \in 1..Len(req[r].sent) :
        LET resp == req[r].sent[i]
        IN  /\ HasToken(resp)
               => /\ req[r].committed
                  /\ resp.body.resetToken.id = req[r].values[3]
                  /\ ResolvesTo(r, resp.body.resetToken.id)
            /\ resp.status = 200 => HasToken(resp)

\* a request answered with a token
C9_Witness ==
    \E r \in Req : Responded(r) /\ HasToken(req[r].sent[1]) /\ req[r].committed

-----------------------------------------------------------------------------
(* C10.  The credential pair.                                              *)

\* C10: every account has one credential row, and the row is either the one
\* the account was registered with or the salt of one committed update
\* together with the digest of that update's newPassword under that salt.
C10_CredentialPair ==
    \A row \in account :
        LET a == row.account_id
        IN  /\ a \in DOMAIN credential
            /\ \/ credential[a] = InitCredential[a]
               \/ \E r \in Req :
                     /\ req[r].committed
                     /\ req[r].values[3] = a
                     /\ credential[a] =
                           [salt |-> req[r].values[2],
                            salted_hash |-> generateHash(req[r].body.newPassword,
                                                         req[r].values[2])]

\* two updates of one account have committed, with different salts and
\* different new passwords
C10_Witness ==
    \E r1, r2 \in Req :
        /\ r1 # r2
        /\ req[r1].committed /\ req[r2].committed
        /\ req[r1].values[3] = req[r2].values[3]
        /\ req[r1].values[2] # req[r2].values[2]
        /\ req[r1].body.newPassword # req[r2].body.newPassword

-----------------------------------------------------------------------------
(* C11.  Concurrent rotations of one account.                              *)

\* the pair the committed update of a request wrote
WrittenPair(r) == [salt |-> req[r].values[2], salted_hash |-> req[r].values[1]]

\* two finished requests whose updates both committed for one account
BothCommitted(r1, r2) ==
    /\ r1 # r2
    /\ req[r1].committed /\ req[r2].committed
    /\ req[r1].values[3] = req[r2].values[3]
    /\ Done(r1) /\ Done(r2)

Answered200WithToken(r) ==
    Len(req[r].sent) = 1 /\ Status(r) = 200 /\ HasToken(req[r].sent[1])

\* nothing orders two rotations of one account: an issued update can commit
\* whatever the other requests have done, and the credential stored for an
\* account is the pair written by the update that committed last for it
LastCommitWins ==
    /\ \A r \in Req : req[r].pc = "update" => ENABLED UpdateCommit(r)
    /\ \A a \in DOMAIN credential :
          lastWriter[a] # 0 => credential[a] = WrittenPair(lastWriter[a])

\* C11 as claimed: nothing orders two rotations of one account, the last
\* commit determines the stored credential, and two requests for the same
\* account whose updates both committed are both answered 200 with a token.
C11_ConcurrentRotations ==
    /\ LastCommitWins
    /\ \A r1, r2 \in Req :
          BothCommitted(r1, r2) => (Answered200WithToken(r1) /\ Answered200WithToken(r2))

\* what holds of C11: the ordering part, and the two 200 responses when
\* jwt.sign has a secret to sign with
C11_LastCommitWins ==
    /\ LastCommitWins
    /\ \A r1, r2 \in Req :
          (BothCommitted(r1, r2) /\ ~SignThrows(secret))
          => (Answered200WithToken(r1) /\ Answered200WithToken(r2))

\* two requests for one account with different new passwords, both answered
\* 200 with a token; the second one's update committed while the first one,
\* already committed, was not answered yet, replaced the pair the first one
\* wrote, and the second one's pair is what the store holds
C11_Witness ==
    \E r1, r2 \in Req :
        /\ r1 # r2
        /\ Done(r1) /\ Status(r1) = 200 /\ HasToken(req[r1].sent[1])
        /\ Done(r2) /\ Status(r2) = 200 /\ HasToken(req[r2].sent[1])
        /\ req[r1].values[3] = req[r2].values[3]
        /\ req[r1].body.newPassword # req[r2].body.newPassword
        /\ req[r2].replaced = <<WrittenPair(r1)>>
        /\ r1 \in req[r2].inFlight
        /\ credential[req[r2].values[3]] = WrittenPair(r2)

-----------------------------------------------------------------------------
(* C12.  The update fails to persist.                                      *)

\* the 500 response of the update's .catch
UpdateFailedResponse(e) ==
    [status |-> 500,
     body |-> [message |-> IF e = "changePassword"
                           THEN "Server error - contact support"
                           ELSE "Unexpected issue on updating password in the database"]]

\* C12: the step in which the update of a request fails to persist leaves
\* every stored credential as it was, answers the request 500 with the
\* update-failure message and no token, and finishes it; a finished request
\* takes no further step, so the update is not issued again.
C12_UpdateFailure ==
    [][\A r \in Req :
          /\ (req[r].pc = "update" /\ req'[r].pc # "update" /\ ~req'[r].committed)
             => /\ credential' = credential
                /\ req'[r].sent = <<UpdateFailedResponse(req[r].endpoint)>>
                /\ ~HasToken(req'[r].sent[1])
                /\ req'[r].pc = "done"
                /\ req'[r].values = req[r].values
          /\ req[r].pc = "done" => req'[r] = req[r]]_vars

\* a request whose update failed, answered 500, while the account it
\* targeted holds the credential another request's rotation wrote
C12_Witness ==
    \E r \in Req :
        /\ Done(r) /\ IssuedUpdate(r) /\ ~req[r].committed
        /\ req[r].sent = <<UpdateFailedResponse(req[r].endpoint)>>
        /\ lastWriter[req[r].values[3]] \notin {0, r}
        /\ credential[req[r].values[3]] = WrittenPair(lastWriter[req[r].values[3]])

-----------------------------------------------------------------------------
(* C13.  The lookup fails.                                                 *)

\* the 500 response of the lookup's .catch
LookupFailedResponse(e) ==
    [status |-> 500,
     body |-> [message |-> IF e = "changePassword"
                           THEN "DB server error - contact support"
                           ELSE "Unexpected issue on account retrieval in the database"]]

\* C13: a request whose lookup the store rejected is finished with the 500
\* response of the lookup's .catch and nothing else: the credential rotator
\* never ran for it, it issued no update, none committed, no token was sent.
C13_LookupFailure ==
    \A r \in Req :
        "IdentityResolver.catch" \in StagesRan(r)
        => /\ Done(r)
           /\ req[r].sent = <<LookupFailedResponse(req[r].endpoint)>>
           /\ ~HasToken(req[r].sent[1])
           /\ "CredentialRotator" \notin StagesRan(r)
           /\ "IdentityResolver.then" \notin StagesRan(r)
           /\ ~IssuedUpdate(r) /\ ~req[r].committed
           /\ req[r].id = NoId

\* a request that would have resolved an account, had its lookup returned,
\* answered 500 by the lookup's .catch
C13_Witness ==
    \E r \in Req :
        /\ Done(r) /\ Status(r) = 500
        /\ "IdentityResolver.catch" \in StagesRan(r)
        /\ Select(req[r].endpoint, account, req[r].body) # {}

-----------------------------------------------------------------------------
(* C14.  Passwords in the log.                                             *)

\* the password values the body of a request supplied
RawPasswords(body) ==
    {body.password, body.newPassword, body.confirmNewPassword} \ {undefined, ""}

\* C14 as claimed: no entry a request wrote to the log holds, in any of its
\* fields, a password value of the request body.
C14_NoPasswordInLog ==
    \A r \in Req : \A i \in 1..Len(req[r].logged) :
        \A f \in DOMAIN req[r].logged[i] :
            req[r].logged[i][f] \notin RawPasswords(req[r].body)

-----------------------------------------------------------------------------
(* C15.  forgotPassword: the three-factor match.                           *)

\* how many of username, email and phone of the body equal the row's
MatchCount(row, body) ==
    Cardinality({f \in {"username", "email", "phone"} : row[f] = body[f]})

\* C15: a forgotPassword request issues an update for account X, and so
\* changes X's credential, only if its username, email and phone all equal
\* the ones stored for X; a request that matches X on fewer than three of
\* them neither issues nor commits an update for X.
C15_ThreeFactorMatch ==
    \A r \in Req : \A row \in account :
        req[r].endpoint = "forgotPassword"
        => /\ (IssuedUpdate(r) /\ req[r].values[3] = row.account_id)
              => MatchesTriple(row, req[r].body)
           /\ MatchCount(row, req[r].body) < 3
              => /\ req[r].id # row.account_id
                 /\ ~(IssuedUpdate(r) /\ req[r].values[3] = row.account_id)
                 /\ lastWriter[row.account_id] # r

\* one forgotPassword request carries the username and phone of an account
\* with another account's email and is answered 404; another one carries the
\* account's three values and has replaced its credential
C15_Witness ==
    \E r1, r2 \in Req : \E row \in account :
        /\ req[r1].endpoint = "forgotPassword" /\ req[r2].endpoint = "forgotPassword"
        /\ Done(r1) /\ Status(r1) = 404
        /\ MatchCount(row, req[r1].body) = 2
        /\ req[r1].body.email # row.email
        /\ MatchesTriple(row, req[r2].body)
        /\ req[r2].committed
        /\ credential[row.account_id] = WrittenPair(r2)

-----------------------------------------------------------------------------
(* C16.  Frame of a rotation.                                              *)

\* C16: no step changes table Account or the set of credential rows.  The
\* step in which the update of a request commits replaces the salt and the
\* salted hash of the account the request's lookup resolved, by the salt the
\* request drew and the digest of its newPassword under it, and leaves every
\* other credential row as it was; no other step changes a credential; and
\* a request commits one update only.
C16_RotationFrame ==
    [][/\ account' = account
       /\ DOMAIN credential' = DOMAIN credential
       /\ \A r \in Req :
             (~req[r].committed /\ req'[r].committed)
             => LET a == req[r].id
                    salt == req[r].values[2]
                IN  /\ ResolvesTo(r, a)
                    /\ credential' =
                          [credential EXCEPT ![a] =
                              [salt |-> salt,
                               salted_hash |-> generateHash(req[r].body.newPassword, salt)]]
       /\ (\A r \in Req : req'[r].committed = req[r].committed)
          => credential' = credential
       /\ \A r \in Req :
             req[r].committed
             => /\ req'[r].committed
                /\ req'[r].values = req[r].values
                /\ req'[r].pc \in {"updated", "done"}]_vars

\* a request answered 200 after replacing the credential of one account,
\* the other account still holding the credential it was registered with
C16_Witness ==
    \E r \in Req : \E other \in DOMAIN credential :
        /\ Done(r) /\ Status(r) = 200
        /\ other # req[r].id
        /\ credential[req[r].id] = WrittenPair(r)
        /\ credential[req[r].id] # InitCredential[req[r].id]
        /\ credential[other] = InitCredential[other]
        /\ account = InitAccount

-----------------------------------------------------------------------------
(* C17.  forgotPassword: the phone format.                                 *)

\* digits grouped 3-3-4 with dashes
GroupedPhone(phone) ==
    LET c == Chars(phone)
    IN  /\ Len(c) = 12
        /\ c[4] = "-" /\ c[8] = "-"
        /\ \A i \in {1, 2, 3, 5, 6, 7, 9, 10, 11, 12} : c[i] \in Digit

InvalidPhoneResponse ==
    [status |-> 400,
     body |-> [message |->
                  "Invalid phone number - please refer to registration documentation"]]

\* every field present, the new password valid and confirmed, an '@' in the
\* email
ValidUpToPhone(r) ==
    /\ req[r].endpoint = "forgotPassword"
    /\ ~MissingRequired(r)
    /\ MeetsPasswordRules(req[r].body.newPassword)
    /\ req[r].body.newPassword = req[r].body.confirmNewPassword
    /\ "@" \in {Chars(req[r].body.email)[i] : i \in 1..Len(Chars(req[r].body.email))}

\* C17: a forgotPassword request with every field present, a valid and
\* confirmed new password and an '@' in its email, whose phone is not digits
\* grouped 3-3-4 with dashes, is answered 400 with the invalid-phone message
\* and reaches the store neither for a lookup nor for an update.
C17_InvalidPhone ==
    \A r \in Req :
        (ValidUpToPhone(r) /\ ~GroupedPhone(req[r].body.phone))
        => /\ Done(r)
           /\ req[r].sent = <<InvalidPhoneResponse>>
           /\ NoStoreAccess(r)

\* the username and email of an account with the phone 1234567890
C17_Witness ==
    \E r \in Req : \E row \in account :
        /\ ValidUpToPhone(r)
        /\ req[r].body.username = row.username
        /\ req[r].body.email = row.email
        /\ req[r].body.phone = "1234567890"
        /\ Done(r) /\ Status(r) = 400

-----------------------------------------------------------------------------
(* C18.  forgotPassword: the successful rotation.                          *)

\* the five fields present and valid, the new password confirmed, and the
\* username, email and phone those of the account row
ValidForgotFor(r, row) ==
    /\ ValidUpToPhone(r)
    /\ GroupedPhone(req[r].body.phone)
    /\ MatchesTriple(row, req[r].body)

\* the request reached the lookup and, when the lookup returned, issued the
\* update for the account of the row
RotatesAccountOf(r, row) ==
    /\ IssuedLookup(r)
    /\ "IdentityResolver.then" \in StagesRan(r)
       => (IssuedUpdate(r) /\ req[r].values[3] = row.account_id)

\* answered 200 with the success message and a token for the account of the
\* row, after replacing its credential row
SucceededFor(r, row) ==
    /\ Len(req[r].sent) = 1
    /\ Status(r) = 200
    /\ Message(r) = "Password updated successfully"
    /\ HasToken(req[r].sent[1])
    /\ req[r].sent[1].body.resetToken.id = row.account_id
    /\ req[r].replaced # << >>
    /\ credential[row.account_id] = WrittenPair(r) \/ lastWriter[row.account_id] # r

\* C18 as claimed: a forgotPassword request with five present and valid
\* fields, a confirmed new password and the username, email and phone of an
\* existing account, whose lookup returned and whose update committed, ends
\* with status 200, the message "Password updated successfully" and a token,
\* the account's credential row replaced.
C18_ForgotSuccess ==
    \A r \in Req : \A row \in account :
        (Arrived(r) /\ ValidForgotFor(r, row))
        => /\ RotatesAccountOf(r, row)
           /\ (Done(r) /\ StoreCallsSucceeded(r)) => SucceededFor(r, row)

\* what holds of C18: the same, when jwt.sign has a secret to sign with
C18_ForgotSuccessSigned ==
    \A r \in Req : \A row \in account :
        (Arrived(r) /\ ValidForgotFor(r, row))
        => /\ RotatesAccountOf(r, row)
           /\ (Done(r) /\ StoreCallsSucceeded(r) /\ ~SignThrows(secret))
              => SucceededFor(r, row)

\* scenario A: alice's username, email and phone with the new password
\* Abcde1!2, answered 200 while the store holds the pair it wrote
C18_Witness ==
    \E r \in Req :
        /\ req[r].endpoint = "forgotPassword"
        /\ req[r].body.username = "alice"
        /\ req[r].body.email = "a@x.com"
        /\ req[r].body.phone = "123-456-7890"
        /\ req[r].body.newPassword = "Abcde1!2"
        /\ req[r].body.confirmNewPassword = "Abcde1!2"
        /\ Done(r) /\ Status(r) = 200
        /\ \E row \in account :
              row.username = "alice" /\ credential[row.account_id] = WrittenPair(r)

-----------------------------------------------------------------------------
(* C19.  changePassword: the current password is irrelevant.               *)

\* what the store did to the calls of a request
LookupOutcome(r) ==
    IF "IdentityResolver.then" \in StagesRan(r) THEN "returned"
    ELSE IF "IdentityResolver.catch" \in StagesRan(r) THEN "rejected"
    ELSE "pending"

UpdateOutcome(r) ==
    IF req[r].committed THEN "committed"
    ELSE IF "CredentialRotator.catch" \in StagesRan(r) THEN "rejected"
    ELSE "pending"

\* two changePassword requests whose bodies differ in nothing but the value
\* of the supplied, non-empty current password
Twins(r1, r2) ==
    /\ req[r1].endpoint = "changePassword" /\ req[r2].endpoint = "changePassword"
    /\ req[r1].body.password \notin {undefined, ""}
    /\ req[r2].body.password \notin {undefined, ""}
    /\ req[r1].body.password # req[r2].body.password
    /\ req[r1].body = [req[r2].body EXCEPT !.password = req[r1].body.password]

\* C19: (a) what the middleware of a changePassword request computes from
\* the body -- the outcome of validation, the rows selected, the values of
\* the update -- is the same for every other non-empty current password;
\* (b) two requests that differ only in the current password and met the
\* same store outcomes resolved the same account, wrote the same stages,
\* issued an update either both or neither, for the same account and with
\* the same digest when they drew the same salt, and, both finished, were
\* sent the same response -- whatever credential the store held when each of
\* them ran.
C19_CurrentPasswordIrrelevant ==
    /\ \A r \in Req : \A pw \in PasswordDom \ {undefined} :
          (req[r].endpoint = "changePassword" /\ req[r].body.password \notin {undefined, ""})
          => LET twin == [req[r].body EXCEPT !.password = pw]
             IN  /\ CP_Sync(twin) = CP_Sync(req[r].body)
                 /\ CP_Select(account, twin) = CP_Select(account, req[r].body)
                 /\ \A salt \in Salts :
                       RotatorValues(twin, req[r].id, salt)
                          = RotatorValues(req[r].body, req[r].id, salt)
    /\ \A r1, r2 \in Req :
          (/\ Twins(r1, r2)
           /\ LookupOutcome(r1) = LookupOutcome(r2)
           /\ UpdateOutcome(r1) = UpdateOutcome(r2))
          => /\ req[r1].id = req[r2].id
             /\ IssuedUpdate(r1) <=> IssuedUpdate(r2)
             /\ (IssuedUpdate(r1) /\ IssuedUpdate(r2))
                => /\ req[r1].values[3] = req[r2].values[3]
                   /\ req[r1].values[2] = req[r2].values[2]
                      => req[r1].values = req[r2].values
             /\ (Done(r1) /\ Done(r2))
                => (req[r1].sent = req[r2].sent /\ req[r1].ran = req[r2].ran)

\* two requests that differ only in the current password, one of them
\* carrying the password that verified against the credential it replaced
\* and the other one a password that did not, both answered 200
C19_Witness ==
    \E r1, r2 \in Req :
        /\ Twins(r1, r2)
        /\ Done(r1) /\ Done(r2)
        /\ Status(r1) = 200 /\ Status(r2) = 200
        /\ VerifiesAgainst(req[r1].replaced[1], req[r1].body.password)
        /\ ~VerifiesAgainst(req[r2].replaced[1], req[r2].body.password)

-----------------------------------------------------------------------------
(* C20.  isValidNewPassword.                                               *)

\* the code units that occur in a string
Units(c) == {c[i] : i \in 1..Len(c)}

\* one uppercase letter, one lowercase letter, one digit and one character
\* of the special set
HasEveryClass(c) ==
    /\ Units(c) \cap UpperCase # {}
    /\ Units(c) \cap LowerCase # {}
    /\ Units(c) \cap Digit # {}
    /\ Units(c) \cap {"!", "@", "#", "$", "%", "^", "&", "*", "(", ")", "_", "+", "=", "-"} # {}

\* C20: for every string, isValidNewPassword of forgotPassword returns true
\* exactly when the length of the string is between 8 and 24 and it holds a
\* character of each of the four classes, isValidNewPassword of
\* changePassword returns the same, strings of length 8 and 24 with the
\* four classes are accepted and strings of length 7 and 25 are rejected.
C20_PolicyValidator ==
    policy.returned # << >>
    => LET c == policy.newPassword
           fp == policy.returned[1]
           cp == policy.returned[2]
       IN  /\ fp <=> (Len(c) >= 8 /\ Len(c) <= 24 /\ HasEveryClass(c))
           /\ cp <=> fp
           /\ (Len(c) \in {8, 24} /\ HasEveryClass(c)) => (fp /\ cp)
           /\ Len(c) \in {7, 25} => (~fp /\ ~cp)

\* a string of length 24 that both functions accept
C20_Witness ==
    /\ policy.returned = <<TRUE, TRUE>>
    /\ Len(policy.newPassword) = 24

\* ---------------------------------------------------------------------
\* C21  ISBN uniqueness under POST /book: after any sequence or
\* interleaving of POST /book requests no two rows of books share an
\* isbn13, and a POST whose isbn was in books when its check query
\* resolved is answered 400 "Book with ISBN already exists" and inserts
\* nothing.  As claimed this does not hold: the check, the SELECT MAX and
\* the INSERT are three separate awaits, so two requests with one isbn can
\* both pass the check before either inserts.
\* ---------------------------------------------------------------------
PostChecked(r) ==
    /\ bookReq[r].op = "post"
    /\ \E i \in 1..Len(bookReq[r].ran) : bookReq[r].ran[i].stage = "post.check"

IsbnExistedAtCheck(r) ==
    PostChecked(r) /\ Len(SelectByIsbn(bookReq[r].before, bookReq[r].input.isbn)) > 0

IsbnsDistinct ==
    \A i, j \in 1..Len(books) : i # j => books[i].isbn13 # books[j].isbn13

C21_IsbnUnique ==
    /\ IsbnsDistinct
    /\ \A r \in BookReq :
         IsbnExistedAtCheck(r) =>
            /\ bookReq[r].sent =
                 <<[status |-> 400, body |-> [message |-> "Book with ISBN already exists"]]>>
            /\ bookReq[r].inserted = << >>

\* ---------------------------------------------------------------------
\* C22  GET /book/all uses the default limit 10 exactly when the limit
\* query value is absent, non-numeric or less than 0, and the default
\* offset 0 exactly when the offset value is absent, non-numeric or less
\* than 0; otherwise it uses the supplied values; and the pagination of
\* the response has nextPage = limit + offset for the limit and offset
\* used in the query.  As claimed this does not hold: the handler tests
\* +limit > 0, so a limit of 0 is replaced by 10.
\* ---------------------------------------------------------------------
AbsentNonNumericOrNegative(query, field) ==
    \/ field \notin DOMAIN query
    \/ ~query[field].numeric
    \/ query[field].value < 0

GetAnswered200(r) ==
    /\ bookReq[r].op = "get"
    /\ Len(bookReq[r].sent) = 1
    /\ bookReq[r].sent[1].status = 200

C22_PageDefaults ==
    \A r \in BookReq :
        bookReq[r].op = "get" =>
            LET query == bookReq[r].input IN
            /\ bookReq[r].limit = IF AbsentNonNumericOrNegative(query, "limit")
                                  THEN 10 ELSE query.limit.value
            /\ bookReq[r].offset = IF AbsentNonNumericOrNegative(query, "offset")
                                   THEN 0 ELSE query.offset.value
            /\ GetAnswered200(r) =>
                 LET pagination == bookReq[r].sent[1].body.pagination IN
                 /\ pagination.limit = bookReq[r].limit
                 /\ pagination.offset = bookReq[r].offset
                 /\ pagination.nextPage = bookReq[r].limit + bookReq[r].offset

\* ---------------------------------------------------------------------
\* C23  DELETE /book/series/:seriesName deletes every book whose title
\* contains "(<seriesName>, #"; only if that deleted no book does it
\* delete the book whose title equals seriesName and has no parenthesised
\* part; it responds 404 and deletes nothing when neither matches; and on
\* every 200 response the returned entries are exactly the books the
\* request deleted.  As claimed this does not hold: the 200 response of
\* the standalone branch returns the rows of the series DELETE, which are
\* none, and the series match is an ILIKE pattern, not containment.
\* ---------------------------------------------------------------------
Contains(text, part) ==
    \E i \in 1..(Len(text) - Len(part) + 1) : SubSeq(text, i, i + Len(part) - 1) = part

\* the title contains "(<seriesName>, #"
InSeries(title, seriesName) ==
    Contains(Chars(title), <<"(">> \o Chars(seriesName) \o <<",", " ", "#">>)

HasParenthesisedPart(title) ==
    \E i, j \in 1..Len(Chars(title)) : i < j /\ Chars(title)[i] = "(" /\ Chars(title)[j] = ")"

BooksInSeries(rows, seriesName) ==
    LET Test(row) == InSeries(row.title, seriesName) IN SelectSeq(rows, Test)

DeleteAnswered(r, status) ==
    /\ bookReq[r].op = "delete"
    /\ Len(bookReq[r].sent) = 1
    /\ bookReq[r].sent[1].status = status

C23_DeleteSeries ==
    \A r \in BookReq :
        /\ DeleteAnswered(r, 200) =>
             /\ bookReq[r].deleted # << >>
             /\ bookReq[r].sent[1].body.entries = MapFormat(bookReq[r].deleted)
             /\ LET inSeries == BooksInSeries(bookReq[r].before, bookReq[r].input)
                IN IF inSeries # << >>
                   THEN bookReq[r].deleted = inSeries
                   ELSE \A i \in 1..Len(bookReq[r].deleted) :
                           /\ bookReq[r].deleted[i].title = bookReq[r].input
                           /\ ~HasParenthesisedPart(bookReq[r].deleted[i].title)
        /\ DeleteAnswered(r, 404) =>
             /\ bookReq[r].deleted = << >>
             /\ BooksInSeries(bookReq[r].before, bookReq[r].input) = << >>

\* ---------------------------------------------------------------------
\* C24  Validation order of /forgotPassword: the checks run in the order
\* missing field, invalid new password, password mismatch, invalid email,
\* invalid phone, all before the store lookup; a request with several
\* faults receives only the 400 message of the first failing check in
\* that order, the five messages are pairwise distinct, and the store is
\* accessed only after all five checks passed.
\* ---------------------------------------------------------------------
ForgotMessages ==
    <<"Missing a parameter",
      "Invalid new password - please refer to documentation",
      "The passwords do not match",
      "Invalid email - please refer to registration documentation",
      "Invalid phone number - please refer to registration documentation">>

\* the faults of a request, as the positions of the checks it fails
ForgotFaults(r) ==
    {k \in 1..5 :
        \/ k = 1 /\ MissingRequired(r)
        \/ k = 2 /\ ~MeetsPasswordRules(req[r].body.newPassword)
        \/ k = 3 /\ req[r].body.newPassword # req[r].body.confirmNewPassword
        \/ k = 4 /\ \/ req[r].body.email = undefined
                    \/ "@" \notin {Chars(req[r].body.email)[i] :
                                     i \in 1..Len(Chars(req[r].body.email))}
        \/ k = 5 /\ \/ req[r].body.phone = undefined
                    \/ ~GroupedPhone(req[r].body.phone)}

FirstFault(r) == CHOOSE k \in ForgotFaults(r) : \A l \in ForgotFaults(r) : k <= l

C24_ValidationOrder ==
    /\ Cardinality({ForgotMessages[k] : k \in 1..5}) = 5
    /\ \A r \in Req :
         (Arrived(r) /\ req[r].endpoint = "forgotPassword") =>
            IF ForgotFaults(r) # {}
            THEN /\ Done(r)
                 /\ req[r].sent =
                      <<[status |-> 400,
                         body |-> [message |-> ForgotMessages[FirstFault(r)]]]>>
                 /\ NoStoreAccess(r)
            ELSE IssuedLookup(r)

\* a request with mismatched passwords, an email without '@' and an
\* ungrouped phone is told of the mismatch only
C24_Witness ==
    \E r \in Req :
        /\ Arrived(r) /\ req[r].endpoint = "forgotPassword"
        /\ ForgotFaults(r) = {3, 4, 5}
        /\ Done(r)
        /\ Message(r) = "The passwords do not match"

\* ---------------------------------------------------------------------
\* C25  ResolutionFailure is not a normal control path: whenever a
\* request's lookup returned an account row, for any integer account
\* identifier the store can hold, the credential rotator proceeds to the
\* update and the 500 ResolutionFailure response is never produced.  As
\* claimed this does not hold: the guard is !request.id, and the
\* identifier 0 is falsy.
\* ---------------------------------------------------------------------
LookupReturnedRow(r) == req[r].id # NoId

ResolutionFailed(r) ==
    \E i \in 1..Len(req[r].ran) :
        req[r].ran[i].stage = "CredentialRotator" /\ req[r].ran[i].status = 500

C25_NoResolutionFailure ==
    \A r \in Req :
        LookupReturnedRow(r) => IssuedUpdate(r) /\ ~ResolutionFailed(r)

\* ---------------------------------------------------------------------
\* C26  Within one request the stages run strictly in sequence: the
\* request issues at most one lookup and at most one update, the update
\* is issued only after the lookup has returned an account, the token is
\* signed only after the update has returned, and the update targets
\* exactly the account identifier returned by that request's own lookup.
\* ---------------------------------------------------------------------
StageRank(stage) ==
    CASE stage = "RequestValidator" -> 1
      [] stage = "PolicyValidator" -> 2
      [] stage = "EmailValidator" -> 3
      [] stage = "PhoneValidator" -> 4
      [] stage = "IdentityResolver" -> 5
      [] stage = "IdentityResolver.then" -> 6
      [] stage = "IdentityResolver.catch" -> 6
      [] stage = "CredentialRotator" -> 7
      [] stage = "CredentialRotator.then" -> 8
      [] stage = "CredentialRotator.catch" -> 9

RanInSequence(r) ==
    \A i, j \in 1..Len(req[r].ran) :
        i < j => StageRank(req[r].ran[i].stage) < StageRank(req[r].ran[j].stage)

C26_StagesInSequence ==
    \A r \in Req :
        /\ RanInSequence(r)
        /\ IssuedUpdate(r) =>
             /\ "IdentityResolver.then" \in StagesRan(r)
             /\ LookupReturnedRow(r)
             /\ req[r].values[3] = req[r].id
             /\ ResolvesTo(r, req[r].values[3])
        /\ req[r].committed => IssuedUpdate(r)
        /\ \A i \in 1..Len(req[r].sent) :
             HasToken(req[r].sent[i]) =>
                /\ req[r].committed
                /\ "CredentialRotator.then" \in StagesRan(r)
                /\ req[r].sent[i].body.resetToken.id = req[r].id

\* a request for bob's account that went through every stage to its token
C26_Witness ==
    \E r \in Req :
        /\ Done(r)
        /\ req[r].body.username = "bob"
        /\ req[r].id = 2
        /\ req[r].committed
        /\ Len(req[r].sent) = 1 /\ HasToken(req[r].sent[1])

\* ---------------------------------------------------------------------
\* C27  Requests share no mutable state except the store: for concurrent
\* rotation requests that resolve pairwise different accounts, every
\* interleaving of their lookups and updates yields the responses and the
\* store that running them one after another yields, and no request's
\* update or token uses an account identifier resolved by another
\* request.  Stated on every reachable state: what a request was answered
\* and what its account's credential row holds follow from that request's
\* own body, salt and store outcomes alone.
\* ---------------------------------------------------------------------
ResolvedAlone(r) ==
    /\ LookupReturnedRow(r)
    /\ \A o \in Req \ {r} : req[o].id # req[r].id

\* the response of a request run with no other request present, given what
\* the store did to its update
SequentialResponse(r) ==
    IF req[r].committed
    THEN UpdateThenResult(req[r].id, secret, UpdateCatch(req[r].endpoint)).sent
    ELSE UpdateCatch(req[r].endpoint).sent

C27_Independence ==
    \A r \in Req :
        (ResolvedAlone(r) /\ IssuedUpdate(r)) =>
            /\ req[r].values[3] = req[r].id
            /\ credential[req[r].id] =
                 IF req[r].committed THEN WrittenPair(r) ELSE InitCredential[req[r].id]
            /\ Done(r) => req[r].sent = SequentialResponse(r)
            /\ \A i \in 1..Len(req[r].sent) :
                 HasToken(req[r].sent[i]) =>
                    /\ req[r].sent[i].body.resetToken.id = req[r].id
                    /\ \A o \in Req \ {r} : req[r].sent[i].body.resetToken.id # req[o].id

\* two requests, for bob's and for alice's account, both in flight at once
\* and both answered after their commits
C27_Witness ==
    \E r1, r2 \in Req :
        /\ r1 # r2
        /\ ResolvedAlone(r1) /\ ResolvedAlone(r2)
        /\ req[r1].committed /\ req[r2].committed
        /\ Done(r1) /\ Done(r2)
        /\ r1 \in req[r2].inFlight
        /\ req[r1].values # << >> /\ req[r2].values # << >>

\* ---------------------------------------------------------------------
\* C28  Termination: every request to /changePassword or /forgotPassword
\* eventually receives a terminal response provided every store call it
\* issues eventually resolves or rejects; a request that has arrived and
\* has no response yet is waiting for a store call or its callback.
\* ---------------------------------------------------------------------
AwaitingStore(r) == req[r].pc \in {"lookup", "update", "updated"}

C28_Termination ==
    \A r \in Req :
        /\ [](Arrived(r) /\ ~Responded(r) => AwaitingStore(r))
        /\ Arrived(r) ~> (Done(r) /\ Len(req[r].sent) = 1)

\* a request answered after both of its store calls completed
C28_Witness ==
    \E r \in Req :
        /\ Done(r) /\ Len(req[r].sent) = 1
        /\ "IdentityResolver.then" \in StagesRan(r)
        /\ req[r].committed

\* ---------------------------------------------------------------------
\* C29  A non-200 response means no mutation: whenever a request ends
\* with a 400, 404 or 500 response, its update did not write the store;
\* in particular the 500 update-failure response is produced only when
\* the update did not persist.  As claimed this does not hold: jwt.sign
\* runs inside the update's .then, after the commit, and its throw is
\* answered by the .catch of the update.
\* ---------------------------------------------------------------------
C29_NonOkNoMutation ==
    \A r \in Req :
        (Done(r) /\ Responded(r) /\ Status(r) \in {400, 404, 500}) =>
            /\ ~req[r].committed
            /\ req[r].replaced = << >>
            /\ \A a \in DOMAIN credential : lastWriter[a] # r

\* ---------------------------------------------------------------------
\* C30  A 200 response means a credential was replaced: whenever a
\* request ends with 200 and a token, its update matched and replaced the
\* credential row of the resolved account; a resolved account that has no
\* credential row never yields a 200.  As claimed this does not hold: an
\* UPDATE that matches no row resolves all the same, and its .then does
\* not look at the row count.
\* ---------------------------------------------------------------------
C30_OkMeansReplaced ==
    \A r \in Req :
        (Responded(r) /\ Status(r) = 200 /\ HasToken(req[r].sent[1])) =>
            /\ req[r].id \in DOMAIN credential
            /\ req[r].replaced # << >>

\* ---------------------------------------------------------------------
\* C31  Book identifiers stay unique: POST /book gives the new book the id
\* MAX(id)+1 (1 when books is empty), and after any sequence or
\* interleaving of POST /book requests with distinct ISBNs no two rows of
\* books have the same id.  As claimed this does not hold: the id is
\* computed from a SELECT MAX(id) that is a separate await from the
\* INSERT, so two requests can read the same maximum.
\* ---------------------------------------------------------------------
OnlyPosts == \A r \in BookReq : bookReq[r].op \in {"none", "post"}

PostsOfDistinctIsbns ==
    \A r1, r2 \in BookReq :
        (r1 # r2 /\ PostChecked(r1) /\ PostChecked(r2))
        => bookReq[r1].input.isbn # bookReq[r2].input.isbn

IdsDistinct == \A i, j \in 1..Len(books) : i # j => books[i].id # books[j].id

C31_IdsUnique ==
    (OnlyPosts /\ PostsOfDistinctIsbns) =>
        /\ IdsDistinct
        /\ \A r \in BookReq : \A i \in 1..Len(bookReq[r].inserted) :
             /\ bookReq[r].inserted[i].id = bookReq[r].newID
             /\ bookReq[r].newID >= 1

\* ---------------------------------------------------------------------
\* C32  PUT /book/rate/:id with no rating_N_star field in the body is
\* answered 400 without any store access; otherwise, for an existing
\* book, it adds each provided value to the matching star count,
\* increases rating_count by the sum of the provided values and stores a
\* rating_avg equal to the weighted sum of the updated star counts
\* divided by the updated rating_count; for an id no book has it answers
\* 404 and changes no row.  As claimed this does not hold: the SET list of
\* one UPDATE reads the row as it was, so rating_avg is computed from the
\* star counts and the rating_count of before the update.
\* ---------------------------------------------------------------------
RateAnswered(r, status) ==
    /\ bookReq[r].op = "rate"
    /\ Len(bookReq[r].sent) = 1
    /\ bookReq[r].sent[1].status = status

HasRatingField(body) == \E k \in 1..5 : RatingFields[k] \in DOMAIN body

SameQuotient(a, b) == a.num * b.den = b.num * a.den /\ (a.den = 0 <=> b.den = 0)

\* new is old with the ratings of body added and the average of the result
RatedAsClaimed(old, new, body) ==
    /\ \A k \in 1..5 :
         new[RatingFields[k]] =
            old[RatingFields[k]]
            + (IF RatingFields[k] \in DOMAIN body THEN body[RatingFields[k]] ELSE 0)
    /\ new.rating_count =
         old.rating_count + JoinPlus([k \in 1..5 |->
                                        IF RatingFields[k] \in DOMAIN body
                                        THEN body[RatingFields[k]] ELSE 0])
    /\ SameQuotient(new.rating_avg, Quotient(WeightedSum(new), new.rating_count))

C32_RateBook ==
    \A r \in BookReq :
        bookReq[r].op = "rate" =>
            LET body == bookReq[r].input.body
                id == bookReq[r].input.id
                old == RowsWithId(bookReq[r].before, id)
                new == bookReq[r].rows
            IN /\ ~HasRatingField(body) =>
                    /\ bookReq[r].pc = "done"
                    /\ bookReq[r].sent =
                         <<[status |-> 400,
                            body |-> [message |-> "No valid rating fields provided for update"]]>>
                    /\ bookReq[r].ran = <<[stage |-> "rate", status |-> 400]>>
               /\ RateAnswered(r, 200) =>
                    /\ Len(old) > 0 /\ Len(new) = Len(old)
                    /\ \A i \in 1..Len(old) : RatedAsClaimed(old[i], new[i], body)
               /\ RateAnswered(r, 404) => old = << >> /\ new = << >>

====
